---- MODULE Spec2Model ----
(***************************************************************************)
(* A model of the move-field refactoring of CodART                         *)
(* (src/refactorings/move_field.py): MoveField.refactor() and the three    *)
(* parse-tree listeners it drives, run over a small project of Java files. *)
(*                                                                         *)
(* Text is modelled as sequences of one-character strings, so that         *)
(* endswith, "in", lower(), upper() and slicing are computed, not assumed. *)
(* A path is the record [stem, rw]: the file <stem>.java followed by rw    *)
(* copies of the suffix ".rewritten.java" (the default filename_map); the  *)
(* directory part is left out, no class name of the model occurs in it.    *)
(***************************************************************************)
EXTENDS Integers, Sequences, FiniteSets, TLC

VARIABLES
    req,                 \* the MoveField object's request fields (constant in a run)
    files,               \* self.files
    disk,                \* the file system: path -> parsed content of the file
    orig,                \* history: the file system when refactor() was called
    pc,                  \* position in refactor()
    exc,                 \* the exception that ended the run, "none" otherwise
    idx,                 \* 1-based index of the loop that is running
    utils_listeners,     \* transfer_field: the files that passed the first loop
    field,               \* transfer_field: the captured Field, None before
    methods_tobe_update, \* transfer_field: names of the methods recorded
    saved,               \* history: the paths written by save(), in order
    walked,              \* history: the paths walked by pass 1, in order
    captures,            \* history: how often a listener captured the field
    seen_at_target,      \* history: the template the target class body read
    unmodified_saves,    \* history: the paths saved with rewriter.modified false
    queued,              \* history: per walk of pass 1, the ranges given to replaceRange
    candidates,          \* history: per walk of pass 1, the field_candidate set it was given
    rewriter,            \* a RewriterInterceptor on its own: flag and calls made
    cut,                 \* a walk of CutFieldListener over one compilation unit
    nonstatic,           \* a walk of MakeFieldNonStaticRefactoringListener
    visibility           \* a walk of DecreaseFieldVisibilityListener

vars == <<req, files, disk, orig, pc, exc, idx, utils_listeners, field,
          methods_tobe_update, saved, walked, captures, seen_at_target,
          unmodified_saves, queued, candidates, rewriter, cut, nonstatic,
          visibility>>

\* the walks of the listeners of the other refactorings
listeners == <<cut, nonstatic, visibility>>

None == [none |-> TRUE]

(***************************************************************************)
(* Text helpers (Python str methods on sequences of characters)            *)
(***************************************************************************)
EndsWith(s, t) ==
    /\ Len(t) <= Len(s)
    /\ SubSeq(s, Len(s) - Len(t) + 1, Len(s)) = t

Contains(s, t) ==
    \E k \in 0..(Len(s) - Len(t)) : SubSeq(s, k + 1, k + Len(t)) = t

CasePairs ==
    { <<"a", "A">>, <<"b", "B">>, <<"c", "C">>, <<"e", "E">>, <<"g", "G">>,
      <<"h", "H">>, <<"m", "M">>, <<"n", "N">>, <<"o", "O">>, <<"r", "R">>,
      <<"s", "S">>, <<"t", "T">>, <<"u", "U">>, <<"x", "X">> }

UpperChar(c) ==
    IF \E p \in CasePairs : p[1] = c
    THEN (CHOOSE p \in CasePairs : p[1] = c)[2] ELSE c

LowerChar(c) ==
    IF \E p \in CasePairs : p[2] = c
    THEN (CHOOSE p \in CasePairs : p[2] = c)[1] ELSE c

Lower(s) == [k \in 1..Len(s) |-> LowerChar(s[k])]

\* list.insert(k, x) with a 0-based k: an index past the end appends
ListInsert(s, k, x) ==
    LET at == IF k > Len(s) THEN Len(s) ELSE k
    IN SubSeq(s, 1, at) \o <<x>> \o SubSeq(s, at + 1, Len(s))

\* (the variant is list.pop(): it drops the last element)
ListRemove_Last(s, k) == SubSeq(s, 1, Len(s) - 1)

\* list.pop(k) with a 1-based k: the list without its k-th element
ListRemove(s, k) == SubSeq(s, 1, k - 1) \o SubSeq(s, k + 1, Len(s))

Range(s) == { s[k] : k \in 1..Len(s) }

(***************************************************************************)
(* Paths                                                                   *)
(***************************************************************************)
\* A path is the stem of a file name and the number of ".rewritten.java"
\* suffixes that follow its ".java"; PathText spells it out. Directories are
\* left out: every file lies in the project directory.
JavaPath(stem) == [stem |-> stem, rw |-> 0]

dotJava   == <<".", "j", "a", "v", "a">>
rewritten == <<"r", "e", "w", "r", "i", "t", "t", "e", "n">>

RECURSIVE PathText(_)
PathText(p) ==
    IF p.rw = 0 THEN p.stem \o dotJava
    ELSE PathText([p EXCEPT !.rw = @ - 1]) \o <<".">> \o rewritten \o dotJava

\* the default filename_map: x + ".rewritten.java"
filename_map(p) == [p EXCEPT !.rw = @ + 1]

\* Path(f).name == f"{cls}.java"
IsFileNamed(p, cls) == PathText(p) = cls \o dotJava

\* f.endswith(f"{cls}.java")
PathEndsWith(p, cls) == EndsWith(PathText(p), cls \o dotJava)

\* "rewritten.java" in file
IsRewrittenPath(p) == Contains(PathText(p), rewritten \o dotJava)

\* file.__contains__(cls)
PathContains(p, cls) == Contains(PathText(p), cls)

(***************************************************************************)
(* RewriterInterceptor: the modified flag, and `calls`, the names of the   *)
(* methods called on the object so far. The five methods the class         *)
(* overrides set the flag and hand over to TokenStreamRewriter; the        *)
(* mutation methods it inherits unchanged (replace, replaceIndex,          *)
(* replaceSingleToken, replaceRangeTokens, delete, deleteIndex,            *)
(* deleteToken) end in TokenStreamRewriter.replace, which the class does   *)
(* not override, and leave the flag as it is; the inherited                *)
(* insertBeforeToken calls self.insertBefore, which is overridden.         *)
(***************************************************************************)
\* __init__
RewriterInterceptor == [modified |-> FALSE, calls |-> << >>]

Overridden ==
    {"insertAfter", "insertBefore", "insertBeforeIndex", "insertAfterToken",
     "replaceRange"}

InheritedInserts == {"insertBeforeToken"}

InheritedReplaces ==
    {"replace", "replaceIndex", "replaceSingleToken", "replaceRangeTokens",
     "delete", "deleteIndex", "deleteToken"}

\* a call of one of the five overriding methods: self.modified = True
Intercepted(rw, method) ==
    [modified |-> TRUE, calls |-> Append(rw.calls, method)]

\* a call of a method found in TokenStreamRewriter only
Inherited(rw, method) ==
    IF method \in InheritedInserts THEN Intercepted(rw, method)
    ELSE [rw EXCEPT !.calls = Append(@, method)]

(***************************************************************************)
(* The content of a Java file, as the parse tree and UtilsListener's       *)
(* symbol model present it: the package, the public top-level class `cls`  *)
(* with its fields and methods, an optional non-public top-level class     *)
(* `helper`, the constructors of the file in declaration order, whether    *)
(* the file holds a nested class or an interface declaration, and the      *)
(* imports the rewriter has put before the class (`imported`: the packages *)
(* the file imported to begin with; `helper_fields`: what the rewriter put *)
(* into the body of the helper class).                                     *)
(***************************************************************************)
NoName == << >>

Field(name, datatype, modifiers) ==
    [name |-> name, datatype |-> datatype, modifiers |-> modifiers]

Ctor(owner, nparams) == [owner |-> owner, nparams |-> nparams]

JavaFile(pkg, cls, helper, flds, ctors, inner, iface, methods) ==
    [pkg |-> pkg, cls |-> cls, helper |-> helper, fields |-> flds,
     ctors |-> ctors, inner |-> inner, iface |-> iface,
     imports |-> << >>, imported |-> {}, helper_fields |-> << >>,
     methods |-> methods]

\* package.classes: the class names of the file's model
Classes(f) == {f.cls} \cup (IF f.helper = NoName THEN {} ELSE {f.helper})

\* package.classes[c].fields: the field names of class c (the helper class
\* of the model declares no fields)
FieldNames(f, c) ==
    IF c = f.cls THEN { f.fields[k].name : k \in 1..Len(f.fields) } ELSE {}

(***************************************************************************)
(* PreConditionListener: the flags one walk over a file leaves behind      *)
(***************************************************************************)
\* exitClassBody, first half
contains_field(f) ==
    /\ f.pkg = req.src_package
    /\ req.src_class \in Classes(f)
    /\ req.field_name \in FieldNames(f, req.src_class)

\* exitClassBody, second half
target_exists(f) ==
    f.pkg = req.target_package /\ req.target_class \in Classes(f)

\* (the variant looks the field up in the source class)
duplicate_field_InSource(f) ==
    target_exists(f) /\ req.field_name \in FieldNames(f, req.src_class)

duplicate_field(f) ==
    target_exists(f) /\ req.field_name \in FieldNames(f, req.target_class)

\* enterConstructorDeclaration, folded over the constructors in walk order;
\* st = <<empty_constructor, found_empty_constructor>>
ConstructorSkipped(f, c) ==
    c.owner # req.target_class /\ f.pkg # req.target_package

enterConstructorDeclaration(f, c, st) ==
    IF ConstructorSkipped(f, c) THEN st
    ELSE IF c.nparams = 0 THEN <<TRUE, TRUE>>
    ELSE IF ~st[2] THEN <<FALSE, st[2]>>
    ELSE st

RECURSIVE WalkConstructors(_, _, _)
WalkConstructors(f, k, st) ==
    IF k > Len(f.ctors) THEN st
    ELSE WalkConstructors(f, k + 1, enterConstructorDeclaration(f, f.ctors[k], st))

has_empty_constructor(f) == WalkConstructors(f, 1, <<TRUE, FALSE>>)[1]

\* (the variant never sees a nested class)
has_inner_class_Never(f) == FALSE

has_inner_class(f) == f.inner

is_interface(f) == f.iface

(***************************************************************************)
(* Methods and the contents of their bodies (UtilsListener's Method,       *)
(* LocalVariable, ExpressionName and MethodInvocation). One record shape   *)
(* serves the three kinds of body item:                                    *)
(*   "local": datatype, ids = <<identifier>>                               *)
(*   "expr":  ids = dot_separated_identifiers; inline_new: the expression  *)
(*            is `new <created>().<last id>`                               *)
(*   "call":  ids = dot_separated_identifiers (the callee last); nargs     *)
(*            actual arguments; appended: arguments added by pass 2; form  *)
(*            "plain", "this" or "super"; in_expr: the parser context is   *)
(*            an ExpressionContext; "new": an object creation of ids[1],   *)
(*            of form "inner" when it is written `outer.new Inner()`;      *)
(*            inserted: the texts pass 2 put before the closing            *)
(*            parenthesis, in order                                        *)
(***************************************************************************)
Item(kind, ids, datatype, nargs, form, created) ==
    [kind |-> kind, ids |-> ids, datatype |-> datatype, nargs |-> nargs,
     appended |-> 0, form |-> form, created |-> created, in_expr |-> TRUE,
     prefix |-> NoName, inserted |-> << >>]

LocalVariable(datatype, identifier) ==
    Item("local", <<identifier>>, datatype, 0, "plain", NoName)

ExpressionName(ids) == Item("expr", ids, NoName, 0, "plain", NoName)

MethodInvocation(ids, nargs) == Item("call", ids, NoName, nargs, "plain", NoName)

Creation(cls, nargs) == Item("new", <<cls>>, NoName, nargs, "plain", NoName)

Method(name, params, body) ==
    [name |-> name, params |-> params, body |-> body, is_constructor |-> FALSE]

Param(type, identifier) == <<type, identifier>>

Last(s) == s[Len(s)]

(***************************************************************************)
(* FieldUsageListener                                                      *)
(***************************************************************************)
\* f"$${self.target_class.lower()}"
target_param_name == <<"$", "$">> \o Lower(req.target_class)

\* self.field_name[0].upper() + self.field_name[1:-1]
AccessorSuffix(name) == <<UpperChar(name[1])>> \o SubSeq(name, 2, Len(name) - 1)

AccessorPrefixes ==
    { <<"s", "e", "t">>, <<"g", "e", "t">>, <<"h", "a", "s">>, <<"i", "s">> }

is_method_getter_or_setter(method) ==
    \E pre \in AccessorPrefixes : method = pre \o AccessorSuffix(req.field_name)

is_getter_or_setter(first_id, second_id, local_candidates, field_candidates) ==
    /\ first_id \in local_candidates \cup field_candidates
    /\ \E pre \in AccessorPrefixes : second_id = pre \o AccessorSuffix(req.field_name)

\* FileInfo.has_imported_package / has_imported_class of the symbol model
has_imported_package(f, pkg) == f.pkg = pkg \/ pkg \in f.imported

has_imported_class(f, pkg, cls) == f.pkg = pkg \/ pkg \in f.imported

\* enterClassDeclaration: the caller passes the file's own package name;
\* a file without a public class returns before the flag is set
has_imported_source(f) ==
    /\ f.cls # NoName
    /\ has_imported_package(f, f.pkg) \/ has_imported_class(f, f.pkg, req.src_class)

InTargetClass(f) == f.cls = req.target_class /\ f.pkg = req.target_package

InSourceClass(f) == f.cls = req.src_class /\ f.pkg = req.src_package

\* propagate_field / propagate_getter_setter: the tokens before the DOT of
\* the usage's expression are replaced by the parameter name
propagate_field(it) == [it EXCEPT !.ids = <<target_param_name, Last(it.ids)>>]

propagate_getter_setter(it) ==
    [it EXCEPT !.ids = <<target_param_name, Last(it.ids)>>]

\* propagate_getter_setter_form2: "<name>." is inserted before the call
propagate_getter_setter_form2(it) == [it EXCEPT !.prefix = target_param_name]

\* the parameter text inserted before the closing parenthesis
InjectParam(m) == [m EXCEPT !.params = Append(@, Param(req.target_class, target_param_name))]

local_candidates(f, m) ==
    (IF f.cls = req.src_class THEN {<<"t", "h", "i", "s">>} ELSE {})
    \cup { m.params[k][2] : k \in { j \in 1..Len(m.params) : m.params[j][1] = req.src_class } }
    \cup { m.body[k].ids[1] :
             k \in { j \in 1..Len(m.body) :
                       m.body[j].kind = "local" /\ m.body[j].datatype = req.src_class } }

\* `if not target_added:` the parameter is inserted, the method is appended
\* to methods_tobe_updated and target_added is set
\* (the variant does so at every usage)
Inject_EveryUsage(st) ==
    [st EXCEPT !.m = InjectParam(@), !.added = TRUE, !.recorded = @ + 1,
               !.edited = TRUE]

Inject(st) ==
    IF st.added THEN st
    ELSE [st EXCEPT !.m = InjectParam(@), !.added = TRUE, !.recorded = @ + 1,
                    !.edited = TRUE]

\* a place of a method at which replaceRange is called: its body, or the
\* tokens before the DOT of body item k
Site(place, k) == [place |-> place, k |-> k]

\* one body item of handleMethodUsage's second loop;
\* st = [m: the method so far, added: target_added, recorded: the number
\* of times the method was appended to methods_tobe_updated, edited,
\* replaces: the places given to replaceRange so far]
UsageStep(f, cands, fcands, st, k) ==
    LET it == st.m.body[k]
        inject == Inject(st)
        put(s, new) == [s EXCEPT !.m.body[k] = new, !.edited = TRUE]
        \* propagate_field / propagate_getter_setter end in replaceRange
        replace(s, new) == [put(s, new) EXCEPT !.replaces = Append(@, Site("receiver", k))]
    IN  IF it.kind = "expr" THEN
            LET s1 == IF it.created # NoName
                         /\ Contains(<<"n", "e", "w">> \o it.created, <<"n", "e", "w">> \o req.src_class)
                         /\ Last(it.ids) = req.field_name
                      THEN replace(st, propagate_field(it)) ELSE st
            IN  IF Len(it.ids) < 2 THEN s1
                ELSE IF it.ids[1] \in cands \cup fcands /\ it.ids[2] = req.field_name
                THEN replace(inject, propagate_field(it))
                ELSE s1
        ELSE IF it.kind = "call" THEN
            IF it.created = req.src_class THEN
                IF is_method_getter_or_setter(Last(it.ids))
                THEN replace(st, propagate_getter_setter(it)) ELSE st
            ELSE IF is_method_getter_or_setter(it.ids[1]) THEN
                IF ~it.in_expr THEN inject
                ELSE put(inject, propagate_getter_setter_form2(it))
            ELSE IF Len(it.ids) > 1
                    /\ is_getter_or_setter(it.ids[1], it.ids[2], cands, fcands)
            THEN replace(inject, propagate_getter_setter(it))
            ELSE st
        ELSE st

RECURSIVE UsageLoop(_, _, _, _, _)
UsageLoop(f, cands, fcands, st, k) ==
    IF k > Len(st.m.body) THEN st
    ELSE UsageLoop(f, cands, fcands, UsageStep(f, cands, fcands, st, k), k + 1)

\* handleMethodUsage for method m of file f
handleMethodUsage(f, m, fcands) ==
    LET st0 == [m |-> m, added |-> FALSE, recorded |-> 0, edited |-> FALSE,
                replaces |-> << >>]
    IN  IF ~has_imported_source(f) THEN st0
        ELSE IF f.cls = req.src_class /\ is_method_getter_or_setter(m.name)
        THEN [st0 EXCEPT !.m.body = << >>, !.edited = TRUE,
                         !.replaces = <<Site("body", 0)>>]
        ELSE UsageLoop(f, local_candidates(f, m), fcands, st0, 1)

\* enterClassBody in the target class: the text put into the class body
getter(fld) ==
    Method(<<"g", "e", "t">> \o AccessorSuffix(fld.name), << >>,
           <<ExpressionName(<<<<"t", "h", "i", "s">>, fld.name>>)>>)

setter(fld) ==
    Method(<<"s", "e", "t">> \o AccessorSuffix(fld.name),
           <<Param(fld.datatype, fld.name)>>,
           <<ExpressionName(<<<<"t", "h", "i", "s">>, fld.name>>)>>)

\* replacement_text: the modifiers in order, the datatype, the name
\* (the variant leaves the modifiers out)
replacement_text_NoModifiers(fld) ==
    IF fld.name = req.field_name
    THEN <<Field(fld.name, fld.datatype, << >>)>> ELSE << >>

replacement_text(fld) ==
    IF fld.name = req.field_name
    THEN <<Field(fld.name, fld.datatype, fld.modifiers)>> ELSE << >>

enterClassBody(f, fld) ==
    IF ~InTargetClass(f) THEN f
    ELSE [f EXCEPT !.fields = replacement_text(fld) \o @,
                   !.methods = @ \o <<getter(fld), setter(fld)>>,
                   !.helper_fields = IF f.helper = NoName THEN @
                                     ELSE replacement_text(fld) \o @]

\* The token ranges given to replaceRange. The class body is laid out with
\* field declaration j before the methods and method i after them; the
\* range of a method's class-body declaration ends with the closing brace
\* of its body, and the receivers of the body's items lie inside the body.
TokenRange(from, to) == [from |-> from, to |-> to]

FieldRange(j) == TokenRange(4 * j, 4 * j + 3)

MemberRange(i) == TokenRange(100 * i, 100 * i + 99)

BodyRange(i) == TokenRange(100 * i + 10, 100 * i + 99)

ReceiverRange(i, k) == TokenRange(100 * i + 11 + 4 * k, 100 * i + 12 + 4 * k)

SiteRange(i, site) ==
    IF site.place = "body" THEN BodyRange(i) ELSE ReceiverRange(i, site.k)

\* exitFieldDeclaration over the field declarations of the public class, in
\* order; st = [fields: the declarations kept, fld: field_tobe_moved,
\* n: captures, replaces: the ranges given to replaceRange]
exitFieldDeclaration(f, d, st) ==
    IF f.cls # req.src_class \/ f.pkg # req.src_package
    THEN [st EXCEPT !.fields = Append(@, d)]
    ELSE IF st.fld = None /\ f.pkg = req.src_package /\ d.name = req.field_name
    THEN [st EXCEPT !.fld = d, !.n = @ + 1,
                    !.replaces = Append(@, FieldRange(Len(st.fields) + st.n + 1))]
    ELSE [st EXCEPT !.fields = Append(@, d)]

RECURSIVE WalkFields(_, _, _)
WalkFields(f, k, st) ==
    IF k > Len(f.fields) THEN st
    ELSE WalkFields(f, k + 1, exitFieldDeclaration(f, f.fields[k], st))

\* exitMethodBody, then exitMethodDeclaration, over the methods in order;
\* st = [methods: the methods kept, recorded: methods_tobe_updated, edited,
\* n: the methods walked, replaces: the ranges given to replaceRange]
exitMethodDeclaration(f, m) ==
    f.cls = req.src_class /\ is_method_getter_or_setter(m.name)

WalkMethod(f, m, fcands, st) ==
    LET u == handleMethodUsage(f, m, fcands)
    IN  [methods  |-> IF exitMethodDeclaration(f, m) THEN st.methods
                      ELSE Append(st.methods, u.m),
         recorded |-> st.recorded \o [j \in 1..u.recorded |-> m.name],
         edited   |-> st.edited \/ u.edited \/ exitMethodDeclaration(f, m),
         n        |-> st.n + 1,
         replaces |-> st.replaces
                      \o [j \in 1..Len(u.replaces) |-> SiteRange(st.n + 1, u.replaces[j])]
                      \o (IF exitMethodDeclaration(f, m)
                          THEN <<MemberRange(st.n + 1)>> ELSE << >>)]

RECURSIVE WalkMethods(_, _, _, _)
WalkMethods(f, k, fcands, st) ==
    IF k > Len(f.methods) THEN st
    ELSE WalkMethods(f, k + 1, fcands, WalkMethod(f, f.methods[k], fcands, st))

\* enterClassDeclaration: the import put before the public class
enterClassDeclaration(f) ==
    IF f.cls # NoName /\ (f.cls # req.target_class \/ f.pkg # req.target_package)
    THEN [f EXCEPT !.imports = Append(@, <<req.target_package, req.target_class>>)]
    ELSE f

\* One walk of FieldUsageListener over file content f, constructed with
\* field_tobe_moved = fld and field_candidates = fcands.
\*   raised: enterClassBody read self.field_tobe_moved.name with None
FieldUsageListener(f, fld, fcands) ==
    LET raised == InTargetClass(f) /\ fld = None
        flds   == WalkFields(f, 1, [fields |-> << >>, fld |-> fld, n |-> 0,
                                    replaces |-> << >>])
        meths  == WalkMethods(f, 1, fcands,
                              [methods |-> << >>, recorded |-> << >>, edited |-> FALSE,
                               n |-> 0, replaces |-> << >>])
        f1     == enterClassDeclaration(f)
        f2     == [f1 EXCEPT !.fields = flds.fields, !.methods = meths.methods]
        f3     == IF raised THEN f ELSE enterClassBody(f2, fld)
        \* rewriter.modified: some insert or replaceRange was called
        modified == \/ f1 # f
                    \/ flds.n > 0
                    \/ meths.edited
                    \/ InTargetClass(f)
    IN  [text                 |-> f3,
         raised               |-> raised,
         field_tobe_moved     |-> flds.fld,
         methods_tobe_updated |-> meths.recorded,
         captured             |-> flds.n,
         modified             |-> modified,
         replaces             |-> flds.replaces \o meths.replaces]

(***************************************************************************)
(* MethodUsageListener                                                     *)
(***************************************************************************)
\* exitMethodCall and enterClassCreatorRest on one call or creation
\* (the variant patches unqualified calls only)
PatchCall_Unqualified(it, method_names) ==
    IF it.kind = "call" /\ it.form = "plain" /\ Len(it.ids) = 1
       /\ Last(it.ids) \in method_names
    THEN [it EXCEPT !.appended = @ + 1] ELSE it

\* (the variant never writes the comma)
new_target_NoComma(it) == <<"n", "e", "w", " ">> \o req.target_class \o <<"(", ")">>

\* the text put before the closing parenthesis of a call
new_target(it) ==
    IF it.nargs = 0
    THEN <<"n", "e", "w", " ">> \o req.target_class \o <<"(", ")">>
    ELSE <<",", " ", "n", "e", "w", " ">> \o req.target_class \o <<"(", ")">>

AppendArgument(it) ==
    [it EXCEPT !.appended = @ + 1, !.inserted = Append(@, new_target(it))]

PatchCall(it, method_names) ==
    IF it.kind = "call" THEN
        IF it.form = "this" \/ it.form = "super" THEN it
        ELSE IF Last(it.ids) \in method_names
        THEN AppendArgument(it) ELSE it
    ELSE IF it.kind = "new" THEN
        \* type(ctx.parentCtx) is CreatorContext: not so for `outer.new Inner()`
        IF it.form # "inner" /\ it.ids[1] \notin method_names THEN it
        ELSE AppendArgument(it)
    ELSE it

PatchMethod(m, method_names) ==
    [m EXCEPT !.body = [k \in 1..Len(m.body) |-> PatchCall(m.body[k], method_names)]]

MethodUsageListener(f, methods) ==
    LET g == [f EXCEPT !.methods =
                 [k \in 1..Len(f.methods) |-> PatchMethod(f.methods[k], Range(methods))]]
    IN  [text |-> g, modified |-> g # f]

(***************************************************************************)
(* MoveField                                                               *)
(***************************************************************************)
\* clean_up_dir: the listed files that are no rewritten output
original_files(fs) == SelectSeq(fs, LAMBDA p : ~IsRewrittenPath(p))

\* check_file_exists: the loop sets src_file for a path that ends with the
\* source name and, only otherwise (elif), target_file for one that ends
\* with the target name
check_file_exists(fs) ==
    LET src_file    == \E k \in 1..Len(fs) : PathEndsWith(fs[k], req.src_class)
        target_file == \E k \in 1..Len(fs) :
                           /\ ~PathEndsWith(fs[k], req.src_class)
                           /\ PathEndsWith(fs[k], req.target_class)
    IN  src_file /\ target_file

\* change_file_order: the for loop over enumerate(self.files), which moves
\* elements of the list it is iterating; found_src and found_target are
\* never set, so the early return is never taken
RECURSIVE OrderLoop(_, _)
OrderLoop(fs, k) ==
    LET found_src == FALSE
        found_target == FALSE
    IN  IF k > Len(fs) THEN fs
        ELSE IF IsFileNamed(fs[k], req.src_class)
        THEN OrderLoop(ListInsert(ListRemove(fs, k), 0, fs[k]), k + 1)
        ELSE LET moved == IF IsFileNamed(fs[k], req.target_class)
                          THEN ListInsert(ListRemove(fs, k), 1, fs[k]) ELSE fs
             IN  IF found_src /\ found_target THEN moved
                 ELSE OrderLoop(moved, k + 1)

change_file_order(fs) == OrderLoop(fs, 1)

\* transfer_field, first loop: what the checks after the walk of the file at
\* path p decide: an exception, "skip" (continue) or "keep" (append)
PreCondition(p) ==
    LET f == disk[p]
    IN  IF IsFileNamed(p, req.src_class) /\ f.pkg = req.src_package
             /\ ~contains_field(f) THEN "FieldNotFound"
        ELSE IF IsFileNamed(p, req.src_class) /\ f.pkg = req.src_package
             /\ has_inner_class(f) THEN "Exception"
        ELSE IF IsFileNamed(p, req.src_class) /\ f.pkg = req.src_package THEN
             (IF is_interface(f) THEN "skip" ELSE "keep")
        ELSE IF IsFileNamed(p, req.target_class) /\ f.pkg = req.target_package
             /\ ~target_exists(f) THEN "TargetDoesNotExist"
        ELSE IF IsFileNamed(p, req.target_class) /\ f.pkg = req.target_package
             /\ duplicate_field(f) THEN "DuplicateField"
        ELSE IF IsFileNamed(p, req.target_class) /\ f.pkg = req.target_package
             /\ ~has_empty_constructor(f) THEN "TargetNoEmptyConstructor"
        ELSE IF IsFileNamed(p, req.target_class) /\ f.pkg = req.target_package
             /\ has_inner_class(f) THEN "Exception"
        ELSE IF has_inner_class(f) THEN "skip"
        ELSE IF is_interface(f) THEN "skip"
        ELSE "keep"

\* transfer_field, second loop: the field candidates of one file
field_candidate(f) ==
    { f.fields[k].name : k \in { j \in 1..Len(f.fields) : f.fields[j].datatype = req.src_class } }

\* methods_tobe_update = listener.methods_tobe_updated + methods_tobe_update
\* (the variant keeps the methods of the last file only)
Accumulate_LastFile(recorded, sofar) == recorded

Accumulate(recorded, sofar) == recorded \o sofar

\* (the variant writes in place whatever `overwrite` says)
new_filename_InPlace(p) == p

\* save(): the path written
new_filename(p) == IF req.overwrite THEN p ELSE filename_map(p)

Write(d, p, text) == [q \in DOMAIN d \cup {p} |-> IF q = p THEN text ELSE d[q]]

Raise(e) == pc' = "failed" /\ exc' = e

(***************************************************************************)
(* The listeners of the other refactorings. Each is constructed with a     *)
(* source class and a field name and handed to the parse-tree walker with  *)
(* one compilation unit. The unit is a sequence of top-level classes; a    *)
(* member of a class body (ClassBodyDeclaration2: modifiers and a member   *)
(* declaration) is a field declaration, a method with the names its        *)
(* parameters and local variables declare, or a nested class with fields.  *)
(* The walker calls the handlers in document order; `events` is what it    *)
(* has still to call, `id` the position of the member in the unit.         *)
(***************************************************************************)
FieldMember(name, modifiers) ==
    [kind |-> "field", name |-> name, modifiers |-> modifiers,
     declares |-> << >>, members |-> << >>]

MethodMember(name, declares) ==
    [kind |-> "method", name |-> name, modifiers |-> <<"public">>,
     declares |-> declares, members |-> << >>]

ClassMember(name, members) ==
    [kind |-> "class", name |-> name, modifiers |-> << >>,
     declares |-> << >>, members |-> members]

TopClass(name, members) == [name |-> name, members |-> members]

Event(type, name, id, modifiers) ==
    [type |-> type, name |-> name, id |-> id, modifiers |-> modifiers]

RECURSIVE Flatten(_)
Flatten(ss) == IF ss = << >> THEN << >> ELSE Head(ss) \o Flatten(Tail(ss))

\* VariableDeclaratorId: entered and left for every declared name
DeclaratorEvents(id, name) ==
    <<Event("enterVariableDeclaratorId", name, id, << >>),
      Event("exitVariableDeclaratorId", name, id, << >>)>>

FieldEvents(id, mem) ==
    <<Event("enterFieldDeclaration", mem.name, id, mem.modifiers)>>
    \o DeclaratorEvents(id, mem.name)
    \o <<Event("exitFieldDeclaration", mem.name, id, mem.modifiers),
         Event("exitClassBodyDeclaration2", mem.name, id, mem.modifiers)>>

MemberEvents(id, mem) ==
    IF mem.kind = "field" THEN FieldEvents(id, mem)
    ELSE IF mem.kind = "method" THEN
        Flatten([k \in 1..Len(mem.declares) |-> DeclaratorEvents(id, mem.declares[k])])
        \o <<Event("exitClassBodyDeclaration2", mem.name, id, mem.modifiers)>>
    ELSE <<Event("enterClassDeclaration", mem.name, id, << >>)>>
         \o Flatten([k \in 1..Len(mem.members) |->
                        FieldEvents(Append(id, k), mem.members[k])])
         \o <<Event("exitClassDeclaration", mem.name, id, << >>),
              Event("exitClassBodyDeclaration2", mem.name, id, mem.modifiers)>>

ClassEvents(c, cls) ==
    <<Event("enterClassDeclaration", cls.name, <<c>>, << >>)>>
    \o Flatten([k \in 1..Len(cls.members) |-> MemberEvents(<<c, k>>, cls.members[k])])
    \o <<Event("exitClassDeclaration", cls.name, <<c>>, << >>)>>

\* one import declaration, then the classes
UnitEvents(unit) ==
    IF unit = << >> THEN << >> ELSE
    <<Event("enterImportDeclaration", <<"i", "m", "p", "o", "r", "t">>, << >>, << >>)>>
    \o Flatten([c \in 1..Len(unit) |-> ClassEvents(c, unit[c])])

\* the calls that reach a listener: the handlers it does not define are
\* the empty ones of the generated base listener
Handled(unit, handlers) == SelectSeq(UnitEvents(unit), LAMBDA e : e.type \in handlers)

(***************************************************************************)
(* CutFieldListener (pushdown_field2.py)                                   *)
(***************************************************************************)
NoText == << >>

CutFieldHandlers ==
    {"enterClassDeclaration", "exitClassDeclaration", "enterImportDeclaration",
     "exitVariableDeclaratorId", "exitClassBodyDeclaration2"}

\* __init__, and the walk it is given; `deleted`: the members given to
\* rewriter.delete, in order
CutFieldListener(source_class, field_name, unit) ==
    [source_class |-> source_class, field_name |-> field_name,
     field_content |-> NoText, import_statements |-> << >>,
     detected_field |-> FALSE, is_source_class |-> FALSE,
     deleted |-> << >>, unit |-> unit, events |-> Handled(unit, CutFieldHandlers)]

CutField_enterClassDeclaration(l, e) ==
    IF e.name = l.source_class THEN [l EXCEPT !.is_source_class = TRUE] ELSE l

CutField_exitClassDeclaration(l, e) ==
    IF l.is_source_class /\ e.name = l.source_class
    THEN [l EXCEPT !.is_source_class = FALSE] ELSE l

CutField_enterImportDeclaration(l, e) ==
    [l EXCEPT !.import_statements = Append(@, e.name)]

CutField_exitVariableDeclaratorId(l, e) ==
    IF l.is_source_class /\ e.name = l.field_name
    THEN [l EXCEPT !.detected_field = TRUE] ELSE l

\* the text of the declaration is its place in the unit
CutField_exitClassBodyDeclaration2(l, e) ==
    IF l.detected_field /\ l.is_source_class
    THEN [l EXCEPT !.field_content = e.id, !.deleted = Append(@, e.id),
                   !.detected_field = FALSE]
    ELSE l

(***************************************************************************)
(* MakeFieldNonStaticRefactoringListener (make_field_non_static.py)        *)
(***************************************************************************)
NonStaticHandlers == {"enterClassDeclaration", "exitFieldDeclaration"}

\* `removed`: the <<member, index of the modifier>> given to replaceRange
MakeFieldNonStaticRefactoringListener(source_class, field_name, unit) ==
    [source_class |-> source_class, field_name |-> field_name,
     is_source_class |-> FALSE, is_static |-> FALSE,
     removed |-> << >>, unit |-> unit, events |-> Handled(unit, NonStaticHandlers)]

NonStatic_enterClassDeclaration(l, e) ==
    [l EXCEPT !.is_source_class = (e.name = l.source_class)]

\* the for loop leaves i at the first `static`, or at the last modifier
\* when there is none; self.is_static is set and never cleared
NonStatic_exitFieldDeclaration(l, e) ==
    IF ~l.is_source_class THEN l
    ELSE IF ~Contains(e.name, l.field_name) THEN l
    ELSE IF e.modifiers = << >> THEN l
    ELSE LET statics   == { k \in 1..Len(e.modifiers) : e.modifiers[k] = "static" }
             i         == IF statics # {}
                          THEN CHOOSE k \in statics : \A j \in statics : k <= j
                          ELSE Len(e.modifiers)
             is_static == l.is_static \/ statics # {}
         IN  IF is_static
             THEN [l EXCEPT !.is_static = TRUE, !.removed = Append(@, <<e.id, i>>)]
             ELSE l

(***************************************************************************)
(* DecreaseFieldVisibilityListener (decrease_field_visibility.py)          *)
(***************************************************************************)
VisibilityHandlers ==
    {"enterClassDeclaration", "exitClassDeclaration", "enterFieldDeclaration",
     "exitFieldDeclaration", "enterVariableDeclaratorId", "exitClassBodyDeclaration2"}

\* `changed`: the members whose first modifier was given to
\* replaceSingleToken; `raised`: ctx.modifier(0) was None
DecreaseFieldVisibilityListener(source_class, source_field, unit) ==
    [source_class |-> source_class, source_field |-> source_field,
     in_class |-> FALSE, in_field |-> FALSE, detected_field |-> FALSE,
     changed |-> << >>, raised |-> FALSE,
     unit |-> unit, events |-> Handled(unit, VisibilityHandlers)]

Visibility_enterClassDeclaration(l, e) ==
    IF e.name = l.source_class THEN [l EXCEPT !.in_class = TRUE] ELSE l

Visibility_exitClassDeclaration(l, e) ==
    IF e.name = l.source_class THEN [l EXCEPT !.in_class = FALSE] ELSE l

Visibility_enterFieldDeclaration(l, e) == [l EXCEPT !.in_field = TRUE]

Visibility_exitFieldDeclaration(l, e) == [l EXCEPT !.in_field = FALSE]

Visibility_enterVariableDeclaratorId(l, e) ==
    IF e.name = l.source_field /\ l.in_field
    THEN [l EXCEPT !.detected_field = TRUE] ELSE l

Visibility_exitClassBodyDeclaration2(l, e) ==
    IF ~l.detected_field THEN l
    ELSE IF e.modifiers = << >> THEN [l EXCEPT !.raised = TRUE]
    ELSE [l EXCEPT !.changed = Append(@, e.id), !.detected_field = FALSE]

\* the modifiers of a member after replaceSingleToken(modifier(0), "private")
MadePrivate(modifiers) == <<"private">> \o Tail(modifiers)

--------------------------------------------------------------------------
clean_up_dir ==
    /\ pc = "clean_up_dir"
    /\ files' = original_files(files)
    /\ disk' = [p \in DOMAIN disk \ { q \in Range(files) : IsRewrittenPath(q) } |-> disk[p]]
    /\ pc' = "check_file_exists"
    /\ UNCHANGED <<req, orig, exc, idx, utils_listeners, field, methods_tobe_update,
                   saved, walked, captures, seen_at_target, unmodified_saves, queued, candidates,
                   rewriter, listeners>>

CheckFileExists ==
    /\ pc = "check_file_exists"
    /\ IF check_file_exists(files)
       THEN pc' = "change_file_order" /\ exc' = exc
       ELSE Raise("FileNotFoundError")
    /\ UNCHANGED <<req, files, disk, orig, idx, utils_listeners, field,
                   methods_tobe_update, saved, walked, captures, seen_at_target,
                   unmodified_saves, queued, candidates, rewriter, listeners>>

ChangeFileOrder ==
    /\ pc = "change_file_order"
    /\ files' = change_file_order(files)
    /\ pc' = "preconditions"
    /\ idx' = 1
    /\ UNCHANGED <<req, disk, orig, exc, utils_listeners, field, methods_tobe_update,
                   saved, walked, captures, seen_at_target, unmodified_saves, queued, candidates,
                   rewriter, listeners>>

\* transfer_field: one iteration of the first loop, or its end
CheckPreConditions ==
    /\ pc = "preconditions"
    /\ IF idx > Len(files)
       THEN /\ pc' = "transfer"
            /\ idx' = 1
            /\ files' = << >>
            /\ UNCHANGED <<exc, utils_listeners>>
       ELSE LET res == PreCondition(files[idx])
            IN  /\ IF res \in {"skip", "keep"}
                   THEN pc' = pc /\ exc' = exc
                   ELSE Raise(res)
                /\ utils_listeners' = IF res = "keep"
                                      THEN Append(utils_listeners, files[idx])
                                      ELSE utils_listeners
                /\ idx' = idx + 1
                /\ files' = files
    /\ UNCHANGED <<req, disk, orig, field, methods_tobe_update, saved, walked,
                   captures, seen_at_target, unmodified_saves, queued, candidates, rewriter, listeners>>

\* transfer_field: one iteration of the second loop, or its end
TransferField ==
    /\ pc = "transfer"
    /\ IF idx > Len(utils_listeners)
       THEN /\ pc' = "update_method_calls"
            /\ idx' = 1
            /\ UNCHANGED <<files, disk, exc, field, methods_tobe_update, saved,
                           walked, captures, seen_at_target, unmodified_saves, queued, candidates>>
       ELSE LET file == utils_listeners[idx]
                listener == FieldUsageListener(disk[file], field,
                                               field_candidate(disk[file]))
            IN  /\ walked' = Append(walked, file)
                /\ candidates' = Append(candidates, field_candidate(disk[file]))
                /\ seen_at_target' = IF InTargetClass(disk[file])
                                     THEN Append(seen_at_target, field)
                                     ELSE seen_at_target
                /\ IF listener.raised
                   THEN /\ Raise("AttributeError")
                        /\ UNCHANGED <<files, disk, idx, field, methods_tobe_update,
                                       saved, captures, unmodified_saves, queued>>
                   ELSE /\ files' = Append(files, file)
                        /\ disk' = Write(disk, new_filename(file), listener.text)
                        /\ saved' = Append(saved, new_filename(file))
                        /\ unmodified_saves' =
                               IF listener.modified THEN unmodified_saves
                               ELSE Append(unmodified_saves, new_filename(file))
                        /\ queued' = Append(queued, listener.replaces)
                        /\ methods_tobe_update' =
                               Accumulate(listener.methods_tobe_updated,
                                          methods_tobe_update)
                        /\ field' = IF PathContains(file, req.src_class)
                                    THEN listener.field_tobe_moved ELSE field
                        /\ captures' = captures + listener.captured
                        /\ idx' = idx + 1
                        /\ UNCHANGED <<pc, exc>>
    /\ UNCHANGED <<req, orig, utils_listeners, rewriter, listeners>>

\* update_method_calls: one iteration of its loop, or its end
UpdateMethodCalls ==
    /\ pc = "update_method_calls"
    /\ IF idx > Len(files)
       THEN /\ pc' = "done"
            /\ UNCHANGED <<disk, idx, saved>>
       ELSE LET file == files[idx]
                files_to_apply == IF ~req.overwrite THEN filename_map(file) ELSE file
                listener == MethodUsageListener(disk[files_to_apply], methods_tobe_update)
            IN  /\ IF listener.modified
                   THEN /\ disk' = Write(disk, new_filename(file), listener.text)
                        /\ saved' = Append(saved, new_filename(file))
                   ELSE UNCHANGED <<disk, saved>>
                /\ idx' = idx + 1
                /\ pc' = pc
    /\ UNCHANGED <<req, files, orig, exc, utils_listeners, field, methods_tobe_update,
                   walked, captures, seen_at_target, unmodified_saves, queued, candidates, rewriter, listeners>>

--------------------------------------------------------------------------
(***************************************************************************)
(* The projects and requests of the model. A case is a request and the     *)
(* discovered files in directory-walk order, each with its content.        *)
(***************************************************************************)
MaxOthers == 1   \* files besides the source-class and target-class file
MaxCtors  == 2   \* constructors declared in the target-class file
MaxFiles  == 3   \* files of a project whose file names vary
MaxCalls  == 2   \* call sites of the method that uses the field
MaxUsages == 2   \* usages of the field in one method body
MaxOps    == 3   \* calls made on one RewriterInterceptor

Source == <<"S", "o", "u", "r", "c", "e">>
Target == <<"T", "a", "r", "g", "e", "t">>
Helper == <<"H", "e", "l", "p", "e", "r">>
Other  == <<"O", "t", "h", "e", "r">>
Main   == <<"M", "a", "i", "n">>
Unrewritten == <<"U", "n">> \o rewritten
Inner  == <<"I", "n", "n", "e", "r">>
longName == <<"n", "a", "m", "e">>
run    == <<"r", "u", "n">>
get    == <<"g", "e", "t">>
int    == <<"i", "n", "t">>
String == <<"S", "t", "r", "i", "n", "g">>
this   == <<"t", "h", "i", "s">>
a      == <<"a">>
b      == <<"b">>
ab     == <<"a", "b">>
useA   == <<"u", "s", "e", "A">>

Request(sc, tc, ow) ==
    [src_class |-> sc, src_package |-> "source", target_class |-> tc,
     target_package |-> "target", field_name |-> a, overwrite |-> ow]

RequestFor(sc, tc, ow, fld) == [Request(sc, tc, ow) EXCEPT !.field_name = fld]

Entry(p, text) == [path |-> p, text |-> text]

\* the state in which refactor() is called on a project
StartProgram(r, entries) ==
    /\ req = r
    /\ files = [k \in 1..Len(entries) |-> entries[k].path]
    /\ disk = [p \in { entries[k].path : k \in 1..Len(entries) } |->
                  (CHOOSE e \in Range(entries) : e.path = p).text]
    /\ orig = disk
    /\ pc = "clean_up_dir"
    /\ exc = "none"
    /\ idx = 1
    /\ utils_listeners = << >>
    /\ field = None
    /\ methods_tobe_update = << >>
    /\ saved = << >>
    /\ walked = << >>
    /\ captures = 0
    /\ seen_at_target = << >>
    /\ unmodified_saves = << >>
    /\ queued = << >>
    /\ candidates = << >>
    /\ rewriter = RewriterInterceptor

\* no compilation unit is being walked by the other listeners
Start(r, entries) ==
    /\ StartProgram(r, entries)
    /\ cut = CutFieldListener(Source, a, << >>)
    /\ nonstatic = MakeFieldNonStaticRefactoringListener(Source, a, << >>)
    /\ visibility = DecreaseFieldVisibilityListener(Source, a, << >>)

\* every order of the elements of a finite set
RECURSIVE Orders(_)
Orders(S) ==
    IF S = {} THEN { << >> }
    ELSE UNION { { <<x>> \o s : s \in Orders(S \ {x}) } : x \in S }

RECURSIVE SeqsUpTo(_, _)
SeqsUpTo(S, n) ==
    IF n = 0 THEN { << >> }
    ELSE LET shorter == SeqsUpTo(S, n - 1)
         IN  shorter \cup { Append(s, x) : s \in { t \in shorter : Len(t) = n - 1 }, x \in S }

Plain(pkg, cls, flds) == JavaFile(pkg, cls, NoName, flds, << >>, FALSE, FALSE, << >>)

WithFeature(f, feat) == [f EXCEPT !.inner = (feat = "inner"), !.iface = (feat = "iface")]

Features == {"plain", "inner", "iface"}

\* 1. Requests for Source.a -> Target over projects whose source-class and
\*    target-class files meet or miss each precondition
SourceTexts ==
    { WithFeature(Plain(pkg, Source, flds), feat) :
        pkg \in {"source", "other"},
        flds \in { << >>, <<Field(a, int, << >>)>> },
        feat \in Features }

TargetTexts ==
    { WithFeature(Plain(pkg, cls, flds), feat) :
        pkg \in {"target", "other"},
        cls \in {Target, Other},
        flds \in { << >>, <<Field(a, String, <<"public">>)>> },
        feat \in Features }

OtherEntries ==
    { Entry(JavaPath(Other), Plain("other", Other, << >>)),
      Entry(JavaPath(Main), WithFeature(Plain("source", Main, << >>), "inner")),
      Entry(JavaPath(Helper), WithFeature(Plain("source", Helper, << >>), "iface")),
      Entry(JavaPath(Unrewritten), Plain("other", Unrewritten, << >>)),
      Entry(filename_map(JavaPath(Source)), Plain("source", Source, << >>)) }

PreconditionCases ==
    \E ow \in BOOLEAN, st \in SourceTexts, tt \in TargetTexts :
        \E extra \in { e \in SUBSET OtherEntries : Cardinality(e) <= MaxOthers } :
            \E order \in Orders({Entry(JavaPath(Source), st), Entry(JavaPath(Target), tt)}
                                  \cup extra) :
                Start(Request(Source, Target, ow), order)

\* 2. The constructors of the target-class file, in every order, declared by
\*    the target class or by a second class of the same file
CtorKinds == { Ctor(owner, n) : owner \in {Target, Helper}, n \in {0, 1} }

TargetWithCtors(ctors) ==
    [Plain("target", Target, << >>) EXCEPT
        !.ctors = ctors,
        !.helper = IF \E k \in 1..Len(ctors) : ctors[k].owner = Helper
                   THEN Helper ELSE NoName]

ConstructorCases ==
    \E ctors \in SeqsUpTo(CtorKinds, MaxCtors) :
        Start(Request(Source, Target, FALSE),
              <<Entry(JavaPath(Source), Plain("source", Source, <<Field(a, int, << >>)>>)),
                Entry(JavaPath(Target), TargetWithCtors(ctors))>>)

\* 3. Class names and file names that are suffixes of one another, in every
\*    directory-walk order
ClassNames == { <<"A">>, <<"B">>, <<"B", "A">> }

NamedText(r, stem) ==
    IF stem = r.src_class THEN Plain("source", stem, <<Field(a, int, << >>)>>)
    ELSE IF stem = r.target_class THEN Plain("target", stem, << >>)
    ELSE Plain("other", stem, << >>)

DistinctSeqs(S, n) ==
    { s \in SeqsUpTo(S, n) : \A j, k \in 1..Len(s) : j # k => s[j] # s[k] }

NamingCases ==
    \E sc \in ClassNames, tc \in ClassNames :
        \E stems \in DistinctSeqs(ClassNames \cup {<<"X">>}, MaxFiles) :
            Start(Request(sc, tc, FALSE),
                  [k \in 1..Len(stems) |->
                      Entry(JavaPath(stems[k]),
                            NamedText(Request(sc, tc, FALSE), stems[k]))])

\* 4. The scenario of a field that is used: Source declares the field and a
\*    method useA() that prints this.a; Main calls useA() some times
UsingSource(datatype, modifiers, params) ==
    [Plain("source", Source, <<Field(a, datatype, modifiers)>>) EXCEPT
        !.methods = <<Method(useA, params,
                        <<MethodInvocation(<<<<"S", "y", "s", "t", "e", "m">>,
                                             <<"o", "u", "t">>,
                                             <<"p", "r", "i", "n", "t", "l", "n">>>>, 1),
                          ExpressionName(<<this, a>>)>>)>>]

CallingMain(ncalls, nargs) ==
    [Plain("source", Main, << >>) EXCEPT
        !.methods = <<Method(<<"r", "u", "n">>, << >>,
                        <<LocalVariable(Source, <<"s">>), Creation(Source, 0)>>
                        \o [k \in 1..ncalls |-> MethodInvocation(<<<<"s">>, useA>>, nargs)])>>]

EmptyCtorTarget(ctors) == [Plain("target", Target, << >>) EXCEPT !.ctors = ctors]

ScenarioCases ==
    \E ow \in BOOLEAN, dt \in {int, String}, ncalls \in 0..MaxCalls :
        \E mods \in { << >>, <<"private">>, <<"public", "static">> },
           params \in { << >>, <<Param(int, <<"n">>)>> },
           ctors \in { << >>, <<Ctor(Target, 0)>> } :
            \E order \in Orders({Entry(JavaPath(Source), UsingSource(dt, mods, params)),
                                 Entry(JavaPath(Target), EmptyCtorTarget(ctors)),
                                 Entry(JavaPath(Main), CallingMain(ncalls, Len(params)))}) :
                Start(Request(Source, Target, ow), order)

\* 5. Method names that are, or nearly are, accessors of the field: Source
\*    declares one method of the name, Main calls it on a local of type Source
Capitalize(n) == <<UpperChar(n[1])>> \o SubSeq(n, 2, Len(n))

AccessorNames(fld) == { pre \o Capitalize(fld) : pre \in AccessorPrefixes }

CandidateNames(fld) ==
    AccessorNames(fld)
    \cup { pre \o AccessorSuffix(fld) : pre \in AccessorPrefixes }
    \cup { get \o Capitalize(fld) \o <<"V", "a", "l", "u", "e">>, get \o fld }

CallingAccessor(mname) ==
    [Plain("source", Main, << >>) EXCEPT
        !.methods = <<Method(run, << >>,
                        <<LocalVariable(Source, <<"s">>),
                          MethodInvocation(<<<<"s">>, mname>>, 0)>>)>>]

AccessorCases ==
    \E fld \in {a, longName} :
        \E mname \in CandidateNames(fld) :
            Start(RequestFor(Source, Target, FALSE, fld),
                  <<Entry(JavaPath(Source),
                          [Plain("source", Source, <<Field(fld, int, << >>)>>) EXCEPT
                              !.methods = <<Method(mname, << >>, << >>)>>]),
                    Entry(JavaPath(Target), Plain("target", Target, << >>)),
                    Entry(JavaPath(Main), CallingAccessor(mname))>>)

\* 6. Usages of the field in one method run(Source p), which declares a
\*    local `Source s`; its class declares a field `Source x` and is Source
\*    itself, or Main in the source package or in another one, public or not
InlineNew(cls, fld) == [ExpressionName(<<fld>>) EXCEPT !.created = cls]

InlineNewCall(cls, mname) == [MethodInvocation(<<mname>>, 0) EXCEPT !.created = cls]

UsageItems ==
    { ExpressionName(<<<<"s">>, a>>), ExpressionName(<<<<"p">>, a>>),
      ExpressionName(<<<<"x">>, a>>), ExpressionName(<<this, a>>),
      ExpressionName(<<this, <<"x">>, a>>), ExpressionName(<<<<"y">>, a>>),
      InlineNew(Source, a),
      MethodInvocation(<<<<"s">>, get \o <<"A">>>>, 0),
      MethodInvocation(<<get \o <<"A">>>>, 0),
      InlineNewCall(Source, get \o <<"A">>) }

Running(items) ==
    Method(run, <<Param(Source, <<"p">>)>>, <<LocalVariable(Source, <<"s">>)>> \o items)

Holders == {"Source", "Main", "OtherMain", "NonPublicMain"}

UsageProject(holder, items) ==
    LET x == Field(<<"x">>, Source, << >>)
        src == Plain("source", Source,
                     <<Field(a, int, << >>)>> \o (IF holder = "Source" THEN <<x>> ELSE << >>))
        main == IF holder = "NonPublicMain"
                THEN JavaFile("other", NoName, Main, <<x>>, << >>, FALSE, FALSE, << >>)
                ELSE Plain(IF holder = "Main" THEN "source" ELSE "other", Main, <<x>>)
    IN  <<Entry(JavaPath(Source),
                IF holder = "Source" THEN [src EXCEPT !.methods = <<Running(items)>>]
                ELSE src),
          Entry(JavaPath(Target), Plain("target", Target, << >>)),
          Entry(JavaPath(Main),
                IF holder = "Source" THEN main
                ELSE [main EXCEPT !.methods = <<Running(items)>>])>>

UsageCases ==
    \E holder \in Holders, ow \in BOOLEAN :
        \E items \in SeqsUpTo(UsageItems, MaxUsages) :
            Start(Request(Source, Target, ow), UsageProject(holder, items))

\* 7. Call sites: Source declares useA() and a constructor, each using the
\*    field or not; Main's method holds calls and object creations
InnerCreation(cls) == [Creation(cls, 0) EXCEPT !.form = "inner"]

ExplicitCall(form, nargs) ==
    [MethodInvocation(<<IF form = "this" THEN this ELSE <<"s", "u", "p", "e", "r">>>>, nargs)
        EXCEPT !.form = form]

CallItems ==
    { MethodInvocation(<<<<"s">>, useA>>, 0), MethodInvocation(<<<<"s">>, useA>>, 1),
      MethodInvocation(<<run>>, 0), ExplicitCall("this", 0), ExplicitCall("super", 1),
      Creation(Source, 0), Creation(Source, 1), Creation(Other, 0),
      InnerCreation(Inner) }

CallSiteCases ==
    \E used \in SUBSET {useA, Source}, ow \in BOOLEAN :
        \E items \in SeqsUpTo(CallItems, MaxCalls) :
            LET body(n) == IF n \in used THEN <<ExpressionName(<<this, a>>)>> ELSE << >>
            IN  Start(Request(Source, Target, ow),
                  <<Entry(JavaPath(Source),
                          [Plain("source", Source, <<Field(a, int, << >>)>>) EXCEPT
                              !.methods =
                                  <<[Method(Source, << >>, body(Source))
                                        EXCEPT !.is_constructor = TRUE],
                                    Method(useA, << >>, body(useA))>>]),
                    Entry(JavaPath(Target), Plain("target", Target, << >>)),
                    Entry(JavaPath(Main),
                          [Plain("source", Main, << >>) EXCEPT
                              !.methods = <<Method(run, << >>,
                                              <<LocalVariable(Source, <<"s">>)>> \o items)>>])>>)

\* 8. File order: Source.useA() and Main.run() use the field; Source calls
\*    run(), Other calls useA() and run(); the four files in every
\*    directory-walk order
callRun == <<"c", "a", "l", "l", "R", "u", "n">>
go      == <<"g", "o">>

OrderEntries ==
    { Entry(JavaPath(Source),
            [Plain("source", Source, <<Field(a, int, << >>)>>) EXCEPT
                !.methods = <<Method(useA, << >>, <<ExpressionName(<<this, a>>)>>),
                              Method(callRun, << >>, <<MethodInvocation(<<run>>, 1)>>)>>]),
      Entry(JavaPath(Target), Plain("target", Target, << >>)),
      Entry(JavaPath(Main),
            [Plain("source", Main, << >>) EXCEPT
                !.methods = <<Method(run, <<Param(Source, <<"p">>)>>,
                                     <<ExpressionName(<<<<"p">>, a>>)>>)>>]),
      Entry(JavaPath(Other),
            [Plain("other", Other, << >>) EXCEPT
                !.methods = <<Method(go, << >>,
                                     <<LocalVariable(Source, <<"s">>),
                                       MethodInvocation(<<<<"s">>, useA>>, 0),
                                       MethodInvocation(<<run>>, 1)>>)>>]) }

OrderCases ==
    \E ow \in BOOLEAN, order \in Orders(OrderEntries) :
        Start(Request(Source, Target, ow), order)

Init ==
    \/ OrderCases
    \/ PreconditionCases
    \/ ConstructorCases
    \/ NamingCases
    \/ ScenarioCases
    \/ AccessorCases
    \/ UsageCases
    \/ CallSiteCases

Next ==
    \/ clean_up_dir
    \/ CheckFileExists
    \/ ChangeFileOrder
    \/ CheckPreConditions
    \/ TransferField
    \/ UpdateMethodCalls

Spec == Init /\ [][Next]_vars

--------------------------------------------------------------------------
(***************************************************************************)
(* A RewriterInterceptor on its own: any of its mutation methods may be    *)
(* called, in any order.                                                   *)
(***************************************************************************)
program ==
    <<req, files, disk, orig, pc, exc, idx, utils_listeners, field,
      methods_tobe_update, saved, walked, captures, seen_at_target, unmodified_saves, queued, candidates>>

Call(method) ==
    /\ Len(rewriter.calls) < MaxOps
    /\ rewriter' = IF method \in Overridden THEN Intercepted(rewriter, method)
                   ELSE Inherited(rewriter, method)
    /\ UNCHANGED <<program, listeners>>

insertAfter == Call("insertAfter")

insertBefore == Call("insertBefore")

insertBeforeIndex == Call("insertBeforeIndex")

insertAfterToken == Call("insertAfterToken")

replaceRange == Call("replaceRange")

InheritedMethod == \E method \in InheritedInserts \cup InheritedReplaces : Call(method)

RewriterInit == Start(Request(Source, Target, FALSE), << >>)

RewriterNext ==
    \/ insertAfter
    \/ insertBefore
    \/ insertBeforeIndex
    \/ insertAfterToken
    \/ replaceRange
    \/ InheritedMethod

RewriterSpec == RewriterInit /\ [][RewriterNext]_vars

--------------------------------------------------------------------------
(***************************************************************************)
(* The walk of one compilation unit with a CutFieldListener: one action    *)
(* per handler, taken when the walker's next call is to that handler.      *)
(***************************************************************************)
MaxMembers == 2   \* members of one class body

\* no class declares two fields of one name
WellFormed(members) ==
    \A i, j \in 1..Len(members) :
        (i # j /\ members[i].kind = "field" /\ members[j].kind = "field")
            => members[i].name # members[j].name

\* two top-level classes, the source class first or second
Units(kinds) ==
    LET Bodies == { m \in SeqsUpTo(kinds, MaxMembers) : WellFormed(m) }
    IN  { <<TopClass(n[1], m1), TopClass(n[2], m2)>> :
              n \in {<<Source, Other>>, <<Other, Source>>},
              m1 \in Bodies, m2 \in Bodies }

CutMembers ==
    {FieldMember(a, <<"public">>), FieldMember(b, <<"public">>),
     MethodMember(run, <<a>>), ClassMember(Inner, <<FieldMember(a, <<"public">>)>>)}

NextCall(l, type) == l.events # << >> /\ Head(l.events).type = type

Called(l, handled) == [handled EXCEPT !.events = Tail(l.events)]

CutStep(type, handled) ==
    /\ NextCall(cut, type)
    /\ cut' = Called(cut, handled)
    /\ UNCHANGED <<program, rewriter, nonstatic, visibility>>

CutFieldListener_enterClassDeclaration ==
    CutStep("enterClassDeclaration",
        CutField_enterClassDeclaration(cut, Head(cut.events)))

CutFieldListener_exitClassDeclaration ==
    CutStep("exitClassDeclaration",
        CutField_exitClassDeclaration(cut, Head(cut.events)))

CutFieldListener_enterImportDeclaration ==
    CutStep("enterImportDeclaration",
        CutField_enterImportDeclaration(cut, Head(cut.events)))

CutFieldListener_exitVariableDeclaratorId ==
    CutStep("exitVariableDeclaratorId",
        CutField_exitVariableDeclaratorId(cut, Head(cut.events)))

CutFieldListener_exitClassBodyDeclaration2 ==
    CutStep("exitClassBodyDeclaration2",
        CutField_exitClassBodyDeclaration2(cut, Head(cut.events)))

CutInit ==
    /\ StartProgram(Request(Source, Target, FALSE), << >>)
    /\ cut \in { CutFieldListener(Source, a, unit) : unit \in Units(CutMembers) }
    /\ nonstatic = MakeFieldNonStaticRefactoringListener(Source, a, << >>)
    /\ visibility = DecreaseFieldVisibilityListener(Source, a, << >>)

CutNext ==
    \/ CutFieldListener_enterClassDeclaration
    \/ CutFieldListener_exitClassDeclaration
    \/ CutFieldListener_enterImportDeclaration
    \/ CutFieldListener_exitVariableDeclaratorId
    \/ CutFieldListener_exitClassBodyDeclaration2

CutSpec == CutInit /\ [][CutNext]_vars

--------------------------------------------------------------------------
(***************************************************************************)
(* The walk of one compilation unit with a                                 *)
(* MakeFieldNonStaticRefactoringListener.                                  *)
(***************************************************************************)
NonStaticMembers ==
    {FieldMember(a, <<"public", "static">>), FieldMember(a, <<"public">>),
     FieldMember(ab, <<"public", "final">>), FieldMember(ab, <<"static">>),
     ClassMember(Inner, <<FieldMember(a, <<"static">>)>>)}

NonStaticStep(type, handled) ==
    /\ NextCall(nonstatic, type)
    /\ nonstatic' = Called(nonstatic, handled)
    /\ UNCHANGED <<program, rewriter, cut, visibility>>

MakeFieldNonStatic_enterClassDeclaration ==
    NonStaticStep("enterClassDeclaration",
        NonStatic_enterClassDeclaration(nonstatic, Head(nonstatic.events)))

MakeFieldNonStatic_exitFieldDeclaration ==
    NonStaticStep("exitFieldDeclaration",
        NonStatic_exitFieldDeclaration(nonstatic, Head(nonstatic.events)))

NonStaticInit ==
    /\ StartProgram(Request(Source, Target, FALSE), << >>)
    /\ cut = CutFieldListener(Source, a, << >>)
    /\ nonstatic \in { MakeFieldNonStaticRefactoringListener(Source, a, unit) :
                           unit \in Units(NonStaticMembers) }
    /\ visibility = DecreaseFieldVisibilityListener(Source, a, << >>)

NonStaticNext ==
    \/ MakeFieldNonStatic_enterClassDeclaration
    \/ MakeFieldNonStatic_exitFieldDeclaration

NonStaticSpec == NonStaticInit /\ [][NonStaticNext]_vars

--------------------------------------------------------------------------
(***************************************************************************)
(* The walk of one compilation unit with a DecreaseFieldVisibilityListener.*)
(* An exception raised in a handler ends the walk.                         *)
(***************************************************************************)
VisibilityMembers ==
    {FieldMember(a, <<"public">>), FieldMember(a, <<"static", "public">>),
     FieldMember(a, << >>), FieldMember(b, <<"public">>), MethodMember(run, <<a>>)}

VisibilityStep(type, handled) ==
    /\ NextCall(visibility, type)
    /\ visibility' = IF handled.raised THEN [handled EXCEPT !.events = << >>]
                      ELSE Called(visibility, handled)
    /\ UNCHANGED <<program, rewriter, cut, nonstatic>>

DecreaseFieldVisibility_enterClassDeclaration ==
    VisibilityStep("enterClassDeclaration",
        Visibility_enterClassDeclaration(visibility, Head(visibility.events)))

DecreaseFieldVisibility_exitClassDeclaration ==
    VisibilityStep("exitClassDeclaration",
        Visibility_exitClassDeclaration(visibility, Head(visibility.events)))

DecreaseFieldVisibility_enterFieldDeclaration ==
    VisibilityStep("enterFieldDeclaration",
        Visibility_enterFieldDeclaration(visibility, Head(visibility.events)))

DecreaseFieldVisibility_exitFieldDeclaration ==
    VisibilityStep("exitFieldDeclaration",
        Visibility_exitFieldDeclaration(visibility, Head(visibility.events)))

DecreaseFieldVisibility_enterVariableDeclaratorId ==
    VisibilityStep("enterVariableDeclaratorId",
        Visibility_enterVariableDeclaratorId(visibility, Head(visibility.events)))

DecreaseFieldVisibility_exitClassBodyDeclaration2 ==
    VisibilityStep("exitClassBodyDeclaration2",
        Visibility_exitClassBodyDeclaration2(visibility, Head(visibility.events)))

VisibilityInit ==
    /\ StartProgram(Request(Source, Target, FALSE), << >>)
    /\ cut = CutFieldListener(Source, a, << >>)
    /\ nonstatic = MakeFieldNonStaticRefactoringListener(Source, a, << >>)
    /\ visibility \in { DecreaseFieldVisibilityListener(Source, a, unit) :
                            unit \in Units(VisibilityMembers) }

VisibilityNext ==
    \/ DecreaseFieldVisibility_enterClassDeclaration
    \/ DecreaseFieldVisibility_exitClassDeclaration
    \/ DecreaseFieldVisibility_enterFieldDeclaration
    \/ DecreaseFieldVisibility_exitFieldDeclaration
    \/ DecreaseFieldVisibility_enterVariableDeclaratorId
    \/ DecreaseFieldVisibility_exitClassBodyDeclaration2

VisibilitySpec == VisibilityInit /\ [][VisibilityNext]_vars

--------------------------------------------------------------------------
(***************************************************************************)
(* What the project held when refactor() was called, read from `orig`.     *)
(***************************************************************************)
Finished == pc \in {"done", "failed"}

PreconditionFailures ==
    {"FieldNotFound", "TargetDoesNotExist", "DuplicateField", "TargetNoEmptyConstructor"}

\* the discovered files that are no output of an earlier run
Discovered == { p \in DOMAIN orig : p.rw = 0 }

DeclaredFieldNames(f) == { f.fields[k].name : k \in 1..Len(f.fields) }

\* some discovered file declares class cls in package pkg
DeclaredIn(pkg, cls) ==
    { p \in Discovered : orig[p].pkg = pkg /\ orig[p].cls = cls }

SourceDeclaresField ==
    \E p \in DeclaredIn(req.src_package, req.src_class) :
        req.field_name \in DeclaredFieldNames(orig[p])

TargetDeclared == DeclaredIn(req.target_package, req.target_class) # {}

TargetDeclaresField ==
    \E p \in DeclaredIn(req.target_package, req.target_class) :
        req.field_name \in DeclaredFieldNames(orig[p])

\* the source class and the target class are each declared in the file of
\* their name, and the two files hold no nested class and no interface
SourcePath == JavaPath(req.src_class)
TargetPath == JavaPath(req.target_class)

InOwnFiles ==
    /\ req.src_class # req.target_class
    /\ SourcePath \in DeclaredIn(req.src_package, req.src_class)
    /\ TargetPath \in DeclaredIn(req.target_package, req.target_class)

NoNesting ==
    \A p \in {SourcePath, TargetPath} \cap Discovered : ~orig[p].inner /\ ~orig[p].iface

\* the constructors the target class itself declares
TargetCtors ==
    { c \in Range(orig[TargetPath].ctors) : c.owner = req.target_class }

TargetLacksEmptyCtor == TargetCtors # {} /\ \A c \in TargetCtors : c.nparams > 0

\* the target-class file meets every precondition of the move
TargetMeetsPreconditions ==
    /\ TargetPath \in DeclaredIn(req.target_package, req.target_class)
    /\ ~TargetDeclaresField
    /\ ~TargetLacksEmptyCtor
    /\ Range(orig[TargetPath].ctors) = TargetCtors

\* the project held no output of an earlier run
FreshProject == \A p \in DOMAIN orig : p.rw = 0

\* no file on disk is new or differs from what the run found
NothingRewritten ==
    \A p \in DOMAIN disk : p \in DOMAIN orig /\ disk[p] = orig[p]

(***************************************************************************)
(* C1                                                                      *)
(***************************************************************************)
\* C1: when refactor() has failed with FieldNotFound, TargetDoesNotExist,
\* DuplicateField or TargetNoEmptyConstructor, no file has been written,
\* created or deleted: the file system is as it was. (Stated for the
\* projects that hold no output of an earlier run.)
C1_NothingTouchedOnFailure ==
    (exc \in PreconditionFailures /\ FreshProject)
        => saved = << >> /\ disk = orig

(***************************************************************************)
(* C2                                                                      *)
(***************************************************************************)
\* C2: in every run that passed the file-existence check, if no discovered
\* file declares the field in class src_class of package src_package, the
\* run ends with FieldNotFound. (Stated for the projects that hold the file
\* <src_class>.java and in which the target-class file meets every
\* precondition, so that no other failure can come first.)
C2_FieldNotFoundRaised ==
    (Finished /\ exc # "FileNotFoundError" /\ SourcePath \in Discovered
       /\ req.src_class # req.target_class /\ TargetMeetsPreconditions /\ NoNesting
       /\ ~SourceDeclaresField)
        => exc = "FieldNotFound"

(***************************************************************************)
(* C3                                                                      *)
(***************************************************************************)
\* C3: in every run that passed the file-existence check, if no discovered
\* file declares target_class in target_package, the run ends with
\* TargetDoesNotExist and nothing is saved. (Stated for the projects that hold
\* the file <target_class>.java and whose source class declares the field, so
\* that no other failure can come first.)
C3_TargetDoesNotExistRaised ==
    (Finished /\ exc # "FileNotFoundError" /\ TargetPath \in Discovered
       /\ req.src_class # req.target_class
       /\ SourcePath \in DeclaredIn(req.src_package, req.src_class)
       /\ SourceDeclaresField /\ NoNesting
       /\ ~TargetDeclared)
        => exc = "TargetDoesNotExist" /\ saved = << >>

(***************************************************************************)
(* C4                                                                      *)
(***************************************************************************)
\* C4: when every other precondition is met, the run ends with
\* TargetNoEmptyConstructor exactly when the target class declares a
\* constructor and none of its constructors is parameterless, whatever the
\* order of the constructors and whatever other classes declare.
C4_NoEmptyConstructorExact ==
    (Finished /\ InOwnFiles /\ NoNesting /\ SourceDeclaresField /\ ~TargetDeclaresField)
        => (exc = "TargetNoEmptyConstructor" <=> TargetLacksEmptyCtor)

(***************************************************************************)
(* C5                                                                      *)
(***************************************************************************)
\* C5, as stated: whenever the target class declares a field of the moved
\* field's name, the run ends with DuplicateField and nothing is saved.
C5_DuplicateFieldRaised ==
    (Finished /\ TargetDeclaresField) => exc = "DuplicateField" /\ saved = << >>

\* C5, amended: whenever the file <target_class>.java declares the target
\* class, in the target package, with a field of the moved field's name, and
\* the file-existence check passes, the run fails before anything is saved:
\* with DuplicateField, unless the check of the source-class file, which
\* comes first, raised FieldNotFound or the nested-class exception.
C5_DuplicateFieldOrSourceFailure ==
    (Finished /\ exc # "FileNotFoundError"
       /\ TargetPath \in DeclaredIn(req.target_package, req.target_class)
       /\ req.field_name \in DeclaredFieldNames(orig[TargetPath]))
        => /\ saved = << >>
           /\ NothingRewritten
           /\ exc \in {"DuplicateField", "FieldNotFound", "Exception"}
           /\ exc # "DuplicateField" =>
                 /\ SourcePath \in Discovered
                 /\ orig[SourcePath].pkg = req.src_package
                 /\ (exc = "FieldNotFound" => ~SourceDeclaresField)
                 /\ (exc = "Exception" => orig[SourcePath].inner)

\* DuplicateField has ended a run whose source class declares the field
C5_Witness ==
    /\ exc = "DuplicateField"
    /\ SourceDeclaresField
    /\ TargetDeclaresField

(***************************************************************************)
(* C6                                                                      *)
(***************************************************************************)
\* C6: once check_file_exists has run, FileNotFoundError has been raised
\* exactly when the discovered files hold no <src_class>.java or no
\* <target_class>.java, for every pair of distinct class names.
C6_FileNotFoundExact ==
    (pc \notin {"clean_up_dir", "check_file_exists"} /\ req.src_class # req.target_class)
        => (exc = "FileNotFoundError"
              <=> ~(SourcePath \in Discovered /\ TargetPath \in Discovered))

(***************************************************************************)
(* C7                                                                      *)
(***************************************************************************)
\* C7: after change_file_order, if the list holds the source-class file and
\* the target-class file, the first is at position 0 and the second at
\* position 1.
C7_SourceFirstTargetSecond ==
    (pc = "preconditions" /\ idx = 1 /\ req.src_class # req.target_class
       /\ SourcePath \in Range(files) /\ TargetPath \in Range(files))
        => files[1] = SourcePath /\ files[2] = TargetPath

(***************************************************************************)
(* C8                                                                      *)
(***************************************************************************)
\* C8: the template is captured at most once; whenever the class body of the
\* target class is walked the template is there, with the requested name;
\* the target-class file is not walked before the source-class file; and a
\* run that fails for want of the template has saved nothing.
C8_TemplateHandOff ==
    /\ captures <= 1
    /\ \A k \in 1..Len(seen_at_target) :
          seen_at_target[k] # None /\ seen_at_target[k].name = req.field_name
    /\ \A j, k \in 1..Len(walked) :
          (walked[j] = TargetPath /\ walked[k] = SourcePath) => k < j
    /\ exc = "AttributeError" => saved = << >>

(***************************************************************************)
(* C9                                                                      *)
(***************************************************************************)
\* what save() wrote for the file found at path p
OutputPath(p) == IF req.overwrite THEN p ELSE [p EXCEPT !.rw = 1]
Output(p) == disk[OutputPath(p)]

\* the declaration of the requested field in the source class
MovedField ==
    CHOOSE d \in Range(orig[SourcePath].fields) : d.name = req.field_name

PreconditionsMet ==
    /\ InOwnFiles
    /\ NoNesting
    /\ SourceDeclaresField
    /\ ~TargetDeclaresField
    /\ ~TargetLacksEmptyCtor

\* C9: when a request that meets the preconditions has been carried out, the
\* source class no longer declares the field and the target class declares
\* exactly one field of that name, with the declared type and the ordered
\* modifier list of the original declaration.
C9_FieldRelocated ==
    (pc = "done" /\ PreconditionsMet)
        => /\ req.field_name \notin DeclaredFieldNames(Output(SourcePath))
           /\ \E k \in 1..Len(Output(TargetPath).fields) :
                 /\ Output(TargetPath).fields[k] = MovedField
                 /\ \A j \in 1..Len(Output(TargetPath).fields) :
                       Output(TargetPath).fields[j].name = req.field_name => j = k

\* a finished move of a field declared `public static String a;`
C9_Witness ==
    /\ pc = "done"
    /\ PreconditionsMet
    /\ MovedField = Field(a, String, <<"public", "static">>)
    /\ MovedField \in Range(Output(TargetPath).fields)

(***************************************************************************)
(* C10                                                                     *)
(***************************************************************************)
\* the scenario: Source (package source) declares `int a;` and useA() with
\* `System.out.println(this.a);`, Target (package target) has an empty
\* constructor, and the move has been carried out
dollarTarget == <<"$", "$", "t", "a", "r", "g", "e", "t">>

ScenarioDone ==
    /\ pc = "done"
    /\ req.src_class = Source /\ req.target_class = Target
    /\ SourcePath \in Discovered /\ TargetPath \in Discovered
    /\ orig[SourcePath] = UsingSource(int, << >>, << >>)
    /\ orig[TargetPath] = EmptyCtorTarget(<<Ctor(Target, 0)>>)

MethodsNamed(f, name) == { m \in Range(f.methods) : m.name = name }

CallSites(name) ==
    { it \in UNION { Range(m.body) :
                       m \in UNION { Range(disk[OutputPath(p)].methods) : p \in Discovered } } :
        it.kind = "call" /\ Last(it.ids) = name }

\* everything the scenario promises but the declaration put into Target
ScenarioRewritten ==
    /\ a \notin DeclaredFieldNames(Output(SourcePath))
    /\ MethodsNamed(Output(TargetPath), <<"g", "e", "t", "A">>) # {}
    /\ MethodsNamed(Output(TargetPath), <<"s", "e", "t", "A">>) # {}
    /\ \A m \in MethodsNamed(Output(SourcePath), useA) :
          /\ m.params = <<Param(Target, dollarTarget)>>
          /\ ExpressionName(<<dollarTarget, a>>) \in Range(m.body)
          /\ ExpressionName(<<this, a>>) \notin Range(m.body)
    /\ MethodsNamed(Output(SourcePath), useA) # {}
    /\ \A it \in CallSites(useA) : it.appended = 1

\* C10, as stated: in the scenario, after the move, Source does not declare
\* a, Target declares `private int a;`, getA() and setA(), useA() has the
\* trailing parameter `Target $$target` and reads `$$target.a`, and every
\* call of useA() has one trailing `new Target()` argument.
C10_ScenarioPrivateField ==
    ScenarioDone
        => /\ ScenarioRewritten
           /\ Output(TargetPath).fields = <<Field(a, int, <<"private">>)>>

\* C10, amended: the same, but Target declares `int a;`, the declaration as
\* it stood in Source, with its (empty) modifier list.
C10_ScenarioOriginalField ==
    ScenarioDone
        => /\ ScenarioRewritten
           /\ Output(TargetPath).fields = <<Field(a, int, << >>)>>

\* the scenario carried out in a project where Main calls useA() twice
C10_Witness ==
    /\ ScenarioDone
    /\ Cardinality({ p \in Discovered : orig[p] = CallingMain(2, 0) }) = 1
    /\ CallSites(useA) # {}

(***************************************************************************)
(* What pass 1 made of the methods of a file: `Was(p, i)` is the i-th      *)
(* method of the file found at p, `Now(p, i)` the same method in the       *)
(* output. Files other than the source-class file lose no method, so the   *)
(* positions agree; in the source-class file they agree when it declares   *)
(* no method named as an accessor.                                         *)
(***************************************************************************)
Rewritten(p) ==
    /\ pc = "done"
    /\ p \in Discovered
    /\ p \in Range(walked)
    /\ OutputPath(p) \in DOMAIN disk
    /\ Len(Output(p).methods) = Len(orig[p].methods)

Was(p, i) == orig[p].methods[i]
Now(p, i) == Output(p).methods[i]

InjectedParam == Param(req.target_class, target_param_name)

Occurrences(seq, x) == Cardinality({ k \in 1..Len(seq) : seq[k] = x })

\* the receiver of the item stands replaced by, or prefixed with, the parameter
Redirected(it) == it.ids[1] = target_param_name \/ it.prefix = target_param_name

MainPath == JavaPath(Main)

(***************************************************************************)
(* C11                                                                     *)
(***************************************************************************)
\* C11: a method name is recognized as an accessor of the moved field
\* exactly when it is get, set, is or has followed by the capitalized field
\* name (getName, setName, isName, hasName for the field `name`, and not
\* getNameValue): pass 1 removes a method of the source class exactly when
\* it has such a name (is_method_getter_or_setter), and redirects a call of
\* a method on a local of the source type exactly when the method has such
\* a name (is_getter_or_setter).
C11_AccessorNamesRecognized ==
    (pc = "done" /\ PreconditionsMet) =>
        /\ \A m \in Range(orig[SourcePath].methods) :
              m.name \in CandidateNames(req.field_name) =>
                  (MethodsNamed(Output(SourcePath), m.name) = {}
                      <=> m.name \in AccessorNames(req.field_name))
        /\ Rewritten(MainPath) =>
              \A i \in 1..Len(orig[MainPath].methods) :
                  \A k \in 1..Len(Was(MainPath, i).body) :
                      LET it == Was(MainPath, i).body[k]
                      IN  (it.kind = "call" /\ it.created = NoName /\ Len(it.ids) = 2
                             /\ it.ids[1] = <<"s">>
                             /\ it.ids[2] \in CandidateNames(req.field_name))
                          => (Redirected(Now(MainPath, i).body[k])
                                <=> it.ids[2] \in AccessorNames(req.field_name))

(***************************************************************************)
(* C12                                                                     *)
(***************************************************************************)
\* the positions of the body of method i of file p that pass 1 rewrote
RewrittenItems(p, i) ==
    { k \in 1..Len(Was(p, i).body) :
        \/ Now(p, i).body[k].ids # Was(p, i).body[k].ids
        \/ Now(p, i).body[k].prefix # Was(p, i).body[k].prefix }

\* C12: whatever the number and mix of field and accessor usages in a
\* method body, the method has the target-class parameter at most once in
\* its parameter list and its name at most once in methods_tobe_update
\* (the projects of the model give every method a name of its own), and
\* every usage rewritten in it reads `$$` + the lower-cased target class name.
C12_InjectedAtMostOnce ==
    /\ \A n \in Range(methods_tobe_update) : Occurrences(methods_tobe_update, n) = 1
    /\ \A p \in DOMAIN orig :
          Rewritten(p) =>
              \A i \in 1..Len(orig[p].methods) :
                  /\ Occurrences(Now(p, i).params, InjectedParam) <= 1
                  /\ Len(Now(p, i).params) <= Len(Was(p, i).params) + 1
                  /\ \A k \in RewrittenItems(p, i) :
                        LET it == Now(p, i).body[k]
                            param == <<"$", "$">> \o Lower(req.target_class)
                        IN  it.ids[1] = param \/ it.prefix = param

\* a method with two rewritten usages, one of a field and one of an
\* accessor, and the parameter once
C12_Witness ==
    \E p \in DOMAIN orig :
        /\ Rewritten(p)
        /\ \E i \in 1..Len(orig[p].methods) :
              /\ Cardinality(RewrittenItems(p, i)) = 2
              /\ \E j, k \in RewrittenItems(p, i) :
                    Now(p, i).body[j].kind = "expr" /\ Now(p, i).body[k].kind = "call"
              /\ Occurrences(Now(p, i).params, InjectedParam) = 1
              /\ Was(p, i).name \in Range(methods_tobe_update)

(***************************************************************************)
(* C13                                                                     *)
(***************************************************************************)
\* the names that denote an instance of the source class in method m of
\* the file found at p: its parameters and locals of the source type and
\* the fields of the source type
OfSourceType(p, m) ==
    { m.params[j][2] : j \in { n \in 1..Len(m.params) : m.params[n][1] = req.src_class } }
    \cup { m.body[j].ids[1] :
             j \in { n \in 1..Len(m.body) :
                       m.body[n].kind = "local" /\ m.body[n].datatype = req.src_class } }
    \cup { d.name : d \in { e \in Range(orig[p].fields) : e.datatype = req.src_class } }

\* the receivers X of an expression X.field that the claim speaks of
SourceReceivers(p, m) ==
    { <<n>> : n \in OfSourceType(p, m) }
    \cup { <<this, n>> : n \in OfSourceType(p, m) }
    \cup (IF orig[p].cls = req.src_class THEN { <<this>> } ELSE {})

IsFieldUsage(p, m, it) ==
    /\ it.kind = "expr"
    /\ it.created = NoName
    /\ Len(it.ids) >= 2
    /\ Last(it.ids) = req.field_name
    /\ SubSeq(it.ids, 1, Len(it.ids) - 1) \in SourceReceivers(p, m)

\* C13: in every file that pass 1 walks (stated for the files with a public
\* class), every expression X.field of a method, where X is a local, a
\* parameter or a field of the source type, `this` inside the source class,
\* or a chain such as this.x, reads <injected parameter>.field after the
\* run, and the method has the injected parameter exactly once.
C13_UsagesRedirected ==
    \A p \in DOMAIN orig :
        (Rewritten(p) /\ orig[p].cls # NoName) =>
            \A i \in 1..Len(orig[p].methods) :
                \A k \in 1..Len(Was(p, i).body) :
                    IsFieldUsage(p, Was(p, i), Was(p, i).body[k]) =>
                        /\ Now(p, i).body[k].ids = <<target_param_name, req.field_name>>
                        /\ Occurrences(Now(p, i).params, InjectedParam) = 1

(***************************************************************************)
(* C14                                                                     *)
(***************************************************************************)
\* `new Source().field` or `new Source().getField()`
IsInlineUsage(it) ==
    /\ it.kind \in {"expr", "call"}
    /\ it.created = req.src_class
    /\ \/ it.kind = "expr" /\ Last(it.ids) = req.field_name
       \/ it.kind = "call" /\ Last(it.ids) \in AccessorNames(req.field_name)

\* C14: in every file that pass 1 walks (stated for the files with a public
\* class), a usage through a freshly constructed source instance is
\* redirected to the injected parameter, and a method whose body holds a
\* redirection to the injected parameter has that parameter in its parameter
\* list and its name in methods_tobe_update.
C14_InlineUsageInjects ==
    \A p \in DOMAIN orig :
        (Rewritten(p) /\ orig[p].cls # NoName) =>
            \A i \in 1..Len(orig[p].methods) :
                /\ \A k \in 1..Len(Was(p, i).body) :
                      IsInlineUsage(Was(p, i).body[k]) => Redirected(Now(p, i).body[k])
                /\ (\E k \in 1..Len(Now(p, i).body) : Redirected(Now(p, i).body[k]))
                      => /\ InjectedParam \in Range(Now(p, i).params)
                         /\ Was(p, i).name \in Range(methods_tobe_update)

(***************************************************************************)
(* C15                                                                     *)
(***************************************************************************)
\* a call of an accessor of the moved field with a named receiver, or none
IsAccessorCall(it) ==
    /\ it.kind = "call"
    /\ it.created = NoName
    /\ it.form = "plain"
    /\ Last(it.ids) \in AccessorNames(req.field_name)

\* the accessor calls that the claim lets inject the parameter
CallInjects(p, m, it) ==
    /\ IsAccessorCall(it)
    /\ \/ Len(it.ids) = 2 /\ it.ids[1] \in OfSourceType(p, m)
       \/ Len(it.ids) = 1 /\ orig[p].cls = req.src_class

\* the method holds no usage but method calls
CallsOnly(m) == \A k \in 1..Len(m.body) : m.body[k].kind \in {"local", "call"}
                                           /\ m.body[k].created = NoName

\* C15: in every file that pass 1 walks (stated for the files with a public
\* class, for the field names whose accessors C11 does not bring into
\* doubt, and for the methods that use the field through calls only), the
\* parameter is injected exactly when the body holds an accessor call whose
\* receiver is of the source type or an unqualified accessor call inside
\* the source class; such a call is redirected; an unqualified call of an
\* accessor name in another class is left alone.
C15_AccessorCallsInject ==
    \A p \in DOMAIN orig :
        (Rewritten(p) /\ orig[p].cls # NoName
           /\ AccessorSuffix(req.field_name) = Capitalize(req.field_name)) =>
            \A i \in 1..Len(orig[p].methods) :
                CallsOnly(Was(p, i)) =>
                    /\ InjectedParam \in Range(Now(p, i).params)
                          <=> \E k \in 1..Len(Was(p, i).body) :
                                 CallInjects(p, Was(p, i), Was(p, i).body[k])
                    /\ \A k \in 1..Len(Was(p, i).body) :
                          LET it == Was(p, i).body[k]
                          IN  /\ CallInjects(p, Was(p, i), it)
                                    => Redirected(Now(p, i).body[k])
                              /\ (IsAccessorCall(it) /\ Len(it.ids) = 1
                                     /\ orig[p].cls # req.src_class)
                                    => ~Redirected(Now(p, i).body[k])

(***************************************************************************)
(* C16                                                                     *)
(***************************************************************************)
\* the file imports the source package or the source class, or lies in the
\* source package
ImportsSource(f) == f.pkg = req.src_package \/ req.src_package \in f.imported

TargetImport == <<req.target_package, req.target_class>>

\* C16: pass 1 inserts the import of target_package.target_class into a file
\* exactly when the file has a public class that imports the source package
\* or the source class (or lies in the source package) and is not the target
\* class; a file that does neither gets no import.
C16_ImportInsertedForImporters ==
    \A p \in DOMAIN orig :
        Rewritten(p) =>
            (TargetImport \in Range(disk[OutputPath(p)].imports)
               <=> /\ orig[p].cls # NoName
                   /\ ImportsSource(orig[p])
                   /\ ~InTargetClass(orig[p]))

(***************************************************************************)
(* C17                                                                     *)
(***************************************************************************)
\* a method call, or an object creation `new C(...)`, of the name n
Calls(it, n) ==
    \/ it.kind = "call" /\ it.form = "plain" /\ Last(it.ids) = n
    \/ it.kind = "new" /\ it.form = "plain" /\ it.ids[1] = n

NewTargetText == <<"n", "e", "w", " ">> \o req.target_class \o <<"(", ")">>

\* the run is complete and both passes walked the file found at p
WalkedTwice(p) ==
    /\ pc = "done"
    /\ p \in Discovered
    /\ p \in Range(files)
    /\ OutputPath(p) \in DOMAIN disk

\* C17: after pass 2, in every file it walked, every method call and every
\* object creation whose callee name is the name of a method recorded in
\* pass 1 has exactly one `new <target_class>()` put before its closing
\* parenthesis, with `, ` in front exactly when the call had an argument.
C17_RecordedCallsGetTarget ==
    \A p \in DOMAIN orig :
        WalkedTwice(p) =>
            \A i \in 1..Len(Output(p).methods) :
                \A k \in 1..Len(Now(p, i).body) :
                    LET it == Now(p, i).body[k]
                    IN  (\E n \in Range(methods_tobe_update) : Calls(it, n)) =>
                            /\ it.appended = 1
                            /\ it.inserted =
                                  <<IF it.nargs >= 1 THEN <<",", " ">> \o NewTargetText
                                    ELSE NewTargetText>>

\* a call with an argument and a creation without one were both patched
C17_Witness ==
    /\ Rewritten(MainPath)
    /\ \E i \in 1..Len(Output(MainPath).methods) :
          LET body == Now(MainPath, i).body
          IN  /\ \E k \in 1..Len(body) :
                    /\ body[k].kind = "call" /\ body[k].nargs = 1
                    /\ body[k].inserted = <<<<",", " ">> \o NewTargetText>>
              /\ \E k \in 1..Len(body) :
                    /\ body[k].kind = "new" /\ body[k].nargs = 0
                    /\ body[k].inserted = <<NewTargetText>>

(***************************************************************************)
(* C18                                                                     *)
(***************************************************************************)
\* C18: pass 2 leaves alone every `this(...)` and `super(...)` call, every
\* method call whose callee name is not recorded and every object creation
\* whose created class name is not recorded; when pass 1 recorded no
\* method, pass 2 writes no file (every save is one of pass 1, which saves
\* each file it walks once).
C18_OtherCallsUntouched ==
    /\ \A p \in DOMAIN orig :
          WalkedTwice(p) =>
              \A i \in 1..Len(Output(p).methods) :
                  \A k \in 1..Len(Now(p, i).body) :
                      LET it == Now(p, i).body[k]
                      IN  /\ (it.kind = "call" /\ it.form \in {"this", "super"})
                                => it.appended = 0 /\ it.inserted = << >>
                          /\ (it.kind = "call" /\ it.form = "plain"
                                 /\ Last(it.ids) \notin Range(methods_tobe_update))
                                => it.appended = 0 /\ it.inserted = << >>
                          /\ (it.kind = "new"
                                 /\ it.ids[1] \notin Range(methods_tobe_update))
                                => it.appended = 0 /\ it.inserted = << >>
    /\ (pc = "done" /\ methods_tobe_update = << >>) => Len(saved) = Len(files)

(***************************************************************************)
(* C19                                                                     *)
(***************************************************************************)
\* C19: in both passes a file is written only if the rewriter of its walk
\* reports modified = TRUE: no save is made for a walk that queued no edit.
C19_OnlyModifiedFilesWritten == unmodified_saves = << >>

(***************************************************************************)
(* C20                                                                     *)
(***************************************************************************)
\* C20: the flag of a RewriterInterceptor is FALSE after construction and
\* TRUE after any sequence of calls that holds a mutation (an insert-before,
\* insert-after, delete or replace variant): no mutation leaves it FALSE.
\* Every method of the model is a mutation and `calls` only grows, so the
\* flag is TRUE exactly when a call has been made, and stays so.
C20_ModifiedAfterAnyMutation == rewriter.modified <=> rewriter.calls # << >>

(***************************************************************************)
(* C21                                                                     *)
(***************************************************************************)
\* what the two passes make of the file found at p: pass 1 on the original
\* text (the source-class file is walked before the field is captured),
\* then pass 2 on the output of pass 1
BothPasses(p) ==
    LET first == FieldUsageListener(orig[p],
                                    IF PathContains(p, req.src_class) /\ p = files[1]
                                    THEN None ELSE field,
                                    field_candidate(orig[p])).text
    IN  MethodUsageListener(first, methods_tobe_update).text

\* C21: when overwrite is false, no pass writes to an original source file:
\* every save goes to filename_map(original path), every original file
\* that is no old output keeps its text, and after pass 2 the mapped file
\* holds the edits of pass 1 and of pass 2 together.
C21_OriginalsKeptWithoutOverwrite ==
    ~req.overwrite =>
        /\ \A p \in DOMAIN orig :
              ~IsRewrittenPath(p) => p \in DOMAIN disk /\ disk[p] = orig[p]
        /\ \A k \in 1..Len(saved) :
              \E p \in Range(walked) : saved[k] = filename_map(p) /\ saved[k] # p
        /\ \A p \in DOMAIN orig : WalkedTwice(p) => Output(p) = BothPasses(p)

\* Main's output carries the import of pass 1 and an argument of pass 2,
\* and Main.java is as it was
C21_Witness ==
    /\ ~req.overwrite
    /\ WalkedTwice(MainPath)
    /\ disk[MainPath] = orig[MainPath]
    /\ TargetImport \in Range(Output(MainPath).imports)
    /\ \E i \in 1..Len(Output(MainPath).methods) :
          \E k \in 1..Len(Now(MainPath, i).body) :
              Now(MainPath, i).body[k].inserted # << >>
    /\ Len(saved) > Len(files)

(***************************************************************************)
(* C22                                                                     *)
(***************************************************************************)
Overlaps(r1, r2) == r1.from <= r2.to /\ r2.from <= r1.to

\* C22: in one walk of pass 1 over one file, no range given to replaceRange
\* overlaps a range given to it earlier in the same walk; the source
\* class, whose accessor methods are deleted, is included.
C22_NoOverlappingReplaces ==
    \A w \in 1..Len(queued) :
        \A i, j \in 1..Len(queued[w]) :
            i < j => ~Overlaps(queued[w][i], queued[w][j])

(***************************************************************************)
(* C23                                                                     *)
(***************************************************************************)
\* C23: when the source-class file or the target-class file holds a nested
\* class or an interface declaration (and the project meets the other
\* preconditions of the move), the run never completes: it ends with the
\* unsupported-construct error, raised before any file is saved.
C23_NestingInParticipantIsFatal ==
    (InOwnFiles /\ SourceDeclaresField /\ TargetMeetsPreconditions /\ ~NoNesting) =>
        /\ pc # "done"
        /\ saved = << >>
        /\ Finished => exc = "Exception"

(***************************************************************************)
(* C24                                                                     *)
(***************************************************************************)
\* the name of every field, declared in a class of a file the first loop
\* scanned, whose type is the source class
ProjectCandidates ==
    UNION { field_candidate(orig[p]) : p \in { q \in Discovered : ~IsRewrittenPath(q) } }

\* C24: the field-candidate set handed to the walk of any file is the
\* project-wide one: the names of all fields of the source-class type
\* declared in any scanned file, the same set for every file.
C24_CandidatesAreProjectWide ==
    \A k \in 1..Len(candidates) : candidates[k] = ProjectCandidates

(***************************************************************************)
(* C25                                                                     *)
(***************************************************************************)
\* the names of the methods that carry the injected parameter in some output
InjectedMethods ==
    { m.name : m \in UNION { { n \in Range(disk[new_filename(p)].methods) :
                                  InjectedParam \in Range(n.params) } :
                              p \in Range(walked) \cap Range(files) } }

\* C25: pass 2 starts only when pass 1 has walked every file kept by the
\* first loop; it is given the methods recorded in all of them (a method
\* that got the parameter in any file is in methods_tobe_update); and when
\* the run is complete every call of such a method, in every file walked,
\* has the argument, whatever the order of the files.
C25_PassTwoAfterPassOne ==
    /\ pc \in {"update_method_calls", "done"} =>
          /\ walked = utils_listeners
          /\ files = utils_listeners
          /\ InjectedMethods \subseteq Range(methods_tobe_update)
    /\ \A p \in DOMAIN orig :
          WalkedTwice(p) =>
              \A i \in 1..Len(Output(p).methods) :
                  \A k \in 1..Len(Now(p, i).body) :
                      (\E n \in InjectedMethods : Calls(Now(p, i).body[k], n))
                          => Now(p, i).body[k].appended = 1

\* run() was recorded in Main, walked after Source, and Source's call of
\* run() has the argument
C25_Witness ==
    /\ WalkedTwice(SourcePath) /\ WalkedTwice(MainPath)
    /\ run \in InjectedMethods /\ useA \in InjectedMethods
    /\ \E i \in 1..Len(Output(SourcePath).methods) :
          /\ Now(SourcePath, i).name = callRun
          /\ Now(SourcePath, i).body[1].appended = 1
    /\ \E j, k \in 1..Len(walked) :
          j < k /\ walked[j] = SourcePath /\ walked[k] = MainPath

(***************************************************************************)
(* C26                                                                     *)
(***************************************************************************)
\* the discovered files, other than the source-class and the target-class
\* file, that hold a nested class or an interface declaration
NestingBystanders ==
    { p \in Discovered \ {SourcePath, TargetPath} : orig[p].inner \/ orig[p].iface }

\* C26: in a project that meets the preconditions of the move, a file that
\* is neither the source-class nor the target-class file and holds a nested
\* class or an interface is walked by no pass and never written, and the
\* run goes on: it does not fail, and when it is complete every other file
\* on disk has been walked by both passes.
C26_NestingBystanderSkipped ==
    (InOwnFiles /\ SourceDeclaresField /\ TargetMeetsPreconditions /\ NoNesting
       /\ NestingBystanders # {}) =>
        /\ \A p \in NestingBystanders :
              /\ p \notin Range(walked)
              /\ p \notin Range(utils_listeners)
              /\ pc \in {"transfer", "update_method_calls", "done"} => p \notin Range(files)
              /\ new_filename(p) \notin Range(saved)
              /\ p \in DOMAIN disk => disk[p] = orig[p]
        /\ pc # "failed"
        /\ pc = "done" =>
              \A q \in Discovered \ NestingBystanders :
                  q \in DOMAIN disk => WalkedTwice(q)

\* a run is complete: a file with a nested class or an interface was left
\* out, the source-class and the target-class file were rewritten
C26_Witness ==
    /\ InOwnFiles /\ SourceDeclaresField /\ TargetMeetsPreconditions /\ NoNesting
    /\ NestingBystanders # {}
    /\ pc = "done"
    /\ WalkedTwice(SourcePath) /\ WalkedTwice(TargetPath)
    /\ Len(saved) >= 2

(***************************************************************************)
(* C27                                                                     *)
(***************************************************************************)
\* the files that are neither the source-class nor the target-class file,
\* in the order of the list
Bystanders(fs) ==
    SelectSeq(fs, LAMBDA p : ~IsFileNamed(p, req.src_class)
                             /\ ~IsFileNamed(p, req.target_class))

SamePaths(fs, gs) ==
    /\ Len(fs) = Len(gs)
    /\ \A p \in Range(fs) \cup Range(gs) : Occurrences(fs, p) = Occurrences(gs, p)

\* C27: change_file_order only permutes the list it is given: the result
\* holds the same paths, each as often as before, and the files that are
\* neither the source-class nor the target-class file keep their order.
C27_FileOrderIsPermutation ==
    pc = "change_file_order" =>
        /\ SamePaths(files, change_file_order(files))
        /\ Bystanders(change_file_order(files)) = Bystanders(files)

\* a list of four files, two of them bystanders, that change_file_order
\* rearranges
C27_Witness ==
    /\ pc = "change_file_order"
    /\ Len(Bystanders(files)) = 2
    /\ Len(files) = 4
    /\ change_file_order(files) # files
    /\ IsFileNamed(files[4], req.src_class)

--------------------------------------------------------------------------
(***************************************************************************)
(* C28. When a CutFieldListener has walked a unit, it has deleted exactly  *)
(* the declarations of a field named field_name directly in the body of    *)
(* source_class, a method that declares a parameter or local variable of   *)
(* that name is not deleted, and field_content is the text of the deleted  *)
(* field declaration.                                                      *)
(***************************************************************************)
\* the members of the unit that declare field `name` directly in class `cls`
FieldsOf(unit, cls, name) ==
    { id \in UNION { { <<c, m>> : m \in 1..Len(unit[c].members) } : c \in 1..Len(unit) } :
          /\ unit[id[1]].name = cls
          /\ unit[id[1]].members[id[2]].kind = "field"
          /\ unit[id[1]].members[id[2]].name = name }

C28_CutsOnlyTheField ==
    (cut.events = << >> /\ cut.unit # << >>) =>
        LET decls == FieldsOf(cut.unit, cut.source_class, cut.field_name)
        IN  /\ Range(cut.deleted) \subseteq decls
            /\ \A id \in decls : cut.field_content = id
            /\ decls = {} => cut.field_content = NoText

--------------------------------------------------------------------------
(***************************************************************************)
(* C29. Whatever a MakeFieldNonStaticRefactoringListener removes is a      *)
(* `static` modifier of a declaration whose field name equals field_name:  *)
(* no other modifier of any field is removed, and a field that is not      *)
(* static keeps its modifiers even when a static field matched earlier in  *)
(* the walk.                                                               *)
(***************************************************************************)
\* the member of the unit at a place: <<class, member>> or, in a nested
\* class, <<class, member, field>>
MemberAt(unit, id) ==
    LET top == unit[id[1]].members[id[2]]
    IN  IF Len(id) = 2 THEN top ELSE top.members[id[3]]

C29_RemovesOnlyStaticOfTheField ==
    \A k \in 1..Len(nonstatic.removed) :
        LET decl == MemberAt(nonstatic.unit, nonstatic.removed[k][1])
        IN  /\ decl.name = nonstatic.field_name
            /\ decl.modifiers[nonstatic.removed[k][2]] = "static"

--------------------------------------------------------------------------
(***************************************************************************)
(* C30. Every declaration a DecreaseFieldVisibilityListener changes is the *)
(* declaration of the field named source_field inside source_class (a      *)
(* field of that name in another class of the file is not changed), and    *)
(* the changed declaration then carries exactly one visibility modifier,   *)
(* `private`.                                                              *)
(***************************************************************************)
VisibilityModifiers == {"public", "protected", "private"}

C30_OnlyTheFieldMadePrivate ==
    /\ ~visibility.raised
    /\ \A k \in 1..Len(visibility.changed) :
           LET id    == visibility.changed[k]
               decl  == MemberAt(visibility.unit, id)
               after == MadePrivate(decl.modifiers)
           IN  /\ visibility.unit[id[1]].name = visibility.source_class
               /\ decl.kind = "field"
               /\ decl.name = visibility.source_field
               /\ { i \in 1..Len(after) : after[i] \in VisibilityModifiers }
                      = { i \in 1..Len(after) : after[i] = "private" }
               /\ Cardinality({ i \in 1..Len(after) : after[i] = "private" }) = 1

============================================================================
